---- MODULE Spec2Model ----
(***************************************************************************)
(* The appointments page (AgendamentosPage) of the barbershop admin        *)
(* front-end: the fetched booking collection, the three list filters, the  *)
(* memoised staff colour map and the memoised filtered-and-sorted list,    *)
(* its calendar events, status badges and row actions; the calendar-only   *)
(* appointments page, the dashboard metrics page and the products page.    *)
(* Each specification runs one page; the variables of the other pages stay *)
(* as constructed.                                                         *)
(*                                                                         *)
(* Instants are minutes since 1970-01-01T00:00Z (booking times carry no    *)
(* finer resolution); a Date is [valid, t], an Invalid Date has valid =    *)
(* FALSE.  An ISO time string is the calendar day, minute of day and UTC   *)
(* offset it writes down; parseISO turns it into the instant.              *)
(***************************************************************************)
EXTENDS Integers, Sequences, FiniteSets, TLC

VARIABLES
    bookings,               \* useState<Booking[]>([])
    allBarbers,             \* useState<Barber[]>([]): ids offered by the staff select
    isLoading,              \* useState(true)
    error,                  \* useState<string | null>(null)
    selectedDayFilter,      \* "all" or "0".."6"
    selectedBarberFilter,   \* "all" or a staff id
    showPastAppointments,   \* boolean
    isUserAdmin,            \* user?.role === "admin"
    now,                    \* Date.now(), in minutes
    barberColorMap,         \* useMemo(..., [bookings])
    displayedBookings,      \* useMemo(..., [bookings, filters, isUserAdmin])
    evalNow,                \* Date.now() when displayedBookings was last computed
    agendaEvents,           \* useMemo(..., [bookings, barberColorMap])
    selectedBooking,        \* useState<any>(null): the booking behind the open dialog
    isModalOpen,            \* useState(false)
    bookingToDelete,        \* useState<string | null>(null)
    isDeleting,             \* useState(false)
    requests,               \* PUT and DELETE requests awaiting their answer
    requestsIssued,         \* how many of them were sent so far
    toasts,                 \* notifications emitted through toast.success / toast.error
    selectedBarberId,       \* calendar-only page: useState<string>("all")
    isUpdatingStatus,       \* calendar-only page: useState(false)
    data,                   \* dashboard: useState<DashboardMetricsData | null>(null)
    selectedYear,           \* dashboard: useState<string>(currentYear.toString())
    selectedMonth,          \* dashboard: useState<string>(currentMonth)
    filterMode,             \* dashboard: "month" or "range"
    dateRange,              \* dashboard: useState<DateRange | undefined>(undefined)
    productForm,            \* products: the fields validateProduct reads
    stockForm,              \* products: the fields validateStock reads
    selectedProduct,        \* products: useState<Product | null>(null)
    errors,                 \* products: useState<Record<string, string>>({})
    submitting,             \* products: useState(false)
    productModal,           \* products: useState(false)
    stockModal,             \* products: useState(false)
    products,               \* products: useState<Product[]>([])
    loading                 \* products: useState(true)

vars == <<bookings, allBarbers, isLoading, error, selectedDayFilter,
          selectedBarberFilter, showPastAppointments, isUserAdmin, now,
          barberColorMap, displayedBookings, evalNow, agendaEvents,
          selectedBooking, isModalOpen, bookingToDelete, isDeleting, requests,
          requestsIssued, toasts, selectedBarberId, isUpdatingStatus,
          data, selectedYear, selectedMonth, filterMode, dateRange,
          productForm, stockForm, selectedProduct, errors, submitting,
          productModal, stockModal, products, loading>>

\* The state behind the dialogs and the row actions.
handlerVars == <<selectedBooking, isModalOpen, bookingToDelete, isDeleting, requests,
                 requestsIssued, toasts>>

\* The state only the calendar-only page has.
calendarVars == <<selectedBarberId, isUpdatingStatus>>

\* The state only the dashboard (DashboardMetricsPage) has.
dashboardVars == <<data, selectedYear, selectedMonth, filterMode, dateRange>>

\* The state only the products page (ProductManagement) has.
productVars == <<productForm, stockForm, selectedProduct, errors, submitting,
                 productModal, stockModal, products, loading>>

otherPages == <<dashboardVars, productVars>>

----------------------------------------------------------------------------
(* Bounds *)

\* Longest booking list a fetch returns in Spec.
MaxBookings == 2

\* Most PUT and DELETE requests the page sends in SpecStatus and SpecCalendar.
MaxRequests == 2

\* Longest list of the exhaustive short colour-map inputs in SpecPalette.
MaxShortLen == 5

\* Largest number of distinct staff ids in the long colour-map inputs.
MaxStaff == 12

----------------------------------------------------------------------------
(* Values *)

NULL == "null"

\* booking.barber?._id of a booking whose barber is null (undefined: falsy).
NoBarber == "undefined"

BarberIdPool ==
    <<"b01", "b02", "b03", "b04", "b05", "b06", "b07", "b08", "b09", "b10",
      "b11", "b12", "b13", "b14">>

BarberId(k) == BarberIdPool[k]

\* Staff ids of the shop in Spec.
ShopBarbers == {BarberId(1), BarberId(2)}

DayMinutes == 24 * 60

\* 2024-01-07 (a Sunday) as days since the epoch: 54 years, 13 leap days, 6 days.
Jan7 == 54 * 365 + 13 + 6

IsoString(day, minute, off) == [fmt |-> "iso", day |-> day, min |-> minute, off |-> off]

\* "not-a-date"
NotADate == [fmt |-> "text", day |-> 0, min |-> 0, off |-> 0]

\* a time field that is not a string (missing or null)
NoTime == [fmt |-> "none", day |-> 0, min |-> 0, off |-> 0]

\* "2024-01-07T10:00:00Z"
SunMorning == IsoString(Jan7, 10 * 60, 0)

\* "2024-01-07T23:30:00-03:00", which is 2024-01-08T02:30:00Z
SunLateBrt == IsoString(Jan7, 23 * 60 + 30, -180)

\* "2024-01-08T15:00:00Z"
MonAfternoon == IsoString(Jan7 + 1, 15 * 60, 0)

\* The time fields a fetched booking carries in Spec.
TimeStrings == {NotADate, SunMorning, SunLateBrt, MonAfternoon}

\* Date.now() when the page mounts: 2024-01-08T02:30Z, and what a tick adds.
NowStart == (Jan7 + 1) * DayMinutes + 150
TickStep == 9 * 60 + 30
NowValues == {NowStart, NowStart + TickStep}

\* The day select: "all" and daysOfWeekForFilter.  The bookings of Spec fall on a
\* Sunday ("0") or a Monday ("1"); Tuesday ("2") stands for the five weekdays on
\* which none of them falls.
DayFilterValues == {"all", "1", "2", "0"}

BARBER_COLORS ==
    <<"#1f77b4", "#ff7f0e", "#2ca02c", "#000000", "#9467bd", "#8c564b",
      "#e377c2", "#7f7f7f", "#bcbd22", "#17becf">>

\* booking.customer and booking.service as the API populates them; either is
\* null (NullRef) when the document it referred to was deleted.
NullRef == [isNull |-> TRUE]
Customer(name) == [name |-> name]
Service(name, duration) == [name |-> name, duration |-> duration]

\* A service document saved without a duration (service.duration is undefined).
ServiceWithoutDuration(name) == [name |-> name]

PopulatedBooking(id, barber, time, customer, service, status) ==
    [_id |-> id, barber |-> barber, time |-> time, customer |-> customer,
     service |-> service, status |-> status]

\* bookingToDelete when no booking awaits the confirmation of its deletion (null).
NoBooking == 0

\* A booking with both relations present, newly booked.
Booking(id, barber, time) ==
    PopulatedBooking(id, barber, time, Customer("Ana"), Service("Corte", 30), "booked")

----------------------------------------------------------------------------
(* date-fns and Date *)

parseISO(s) ==
    IF s.fmt = "iso"
    THEN [valid |-> TRUE, t |-> s.day * DayMinutes + s.min - s.off]
    ELSE [valid |-> FALSE, t |-> 0]

isValid(d) == d.valid

isPast(d, n) == d.valid /\ d.t < n

differenceInMilliseconds(a, b) == (a.t - b.t) * 60000

\* Date.prototype.getDay in a client at UTC-03:00 (not what the code calls).
getDay_local(d) == (((d.t - 180) \div DayMinutes) + 4) % 7

\* Date.prototype.getUTCDay: 1970-01-01 was a Thursday (4).
getUTCDay(d) == ((d.t \div DayMinutes) + 4) % 7

\* String(dayOfWeek)
String(n) == <<"0", "1", "2", "3", "4", "5", "6">>[n + 1]

----------------------------------------------------------------------------
(* Array helpers *)

Range(s) == {s[i] : i \in DOMAIN s}

Reverse(s) == [i \in 1..Len(s) |-> s[Len(s) + 1 - i]]

\* [...new Set(ids)]: first occurrences, in insertion order.
RECURSIVE SetOrder(_, _)
SetOrder(ids, acc) ==
    IF ids = <<>> THEN acc
    ELSE SetOrder(Tail(ids),
                  IF Head(ids) \in Range(acc) THEN acc ELSE Append(acc, Head(ids)))

IndexOf(s, x) == CHOOSE i \in DOMAIN s : s[i] = x

----------------------------------------------------------------------------
(* barberColorMap *)

\* Staff ids in the order of the id pool (not what the code does).
uniqueBarberIds_poolOrder(bks) ==
    LET present == {bks[i].barber : i \in DOMAIN bks} \ {NoBarber}
    IN  SelectSeq(BarberIdPool, LAMBDA id : id \in present)

\* [...new Set(bookings.map((b) => b.barber?._id).filter(Boolean))]
uniqueBarberIds(bks) ==
    SetOrder(SelectSeq([i \in 1..Len(bks) |-> bks[i].barber],
                       LAMBDA id : id # NoBarber),
             <<>>)

\* An index clamped to the palette instead of wrapped (not what the code does).
colorIndex_clamped(index) ==
    IF index < Len(BARBER_COLORS) THEN index ELSE Len(BARBER_COLORS) - 1

\* const colorIndex = index % BARBER_COLORS.length (index counts from 0)
colorIndex(index) == index % Len(BARBER_COLORS)

\* The Map built by the forEach over uniqueBarberIds; the empty Map for no bookings.
ComputeBarberColorMap(bks) ==
    IF Len(bks) = 0 THEN <<>>
    ELSE LET ids == uniqueBarberIds(bks)
         IN  [id \in Range(ids) |->
                 BARBER_COLORS[colorIndex(IndexOf(ids, id) - 1) + 1]]

\* The map computed from the list on display (not what the code does).
barberColorMapMemo_fromDisplayed(bks, shown) == ComputeBarberColorMap(shown)

\* useMemo(() => ..., [bookings]): a function of the bookings state alone.
barberColorMapMemo(bks, shown) == ComputeBarberColorMap(bks)

----------------------------------------------------------------------------
(* displayedBookings: the filter steps *)

\* A first step that also drops a booking without customer or service (not
\* what the code does).
stringTimeStep_needsRelations(bks) ==
    SelectSeq(bks, LAMBDA b : /\ b.time.fmt # "none"
                              /\ b.customer # NullRef
                              /\ b.service # NullRef)

\* bookings.filter((booking) => booking && typeof booking.time === "string")
stringTimeStep(bks) == SelectSeq(bks, LAMBDA b : b.time.fmt # "none")

\* A staff step that keeps the bookings without staff (not what the code does).
barberStep_keepsNoStaff(list, admin, barberF) ==
    IF admin /\ barberF # "all"
    THEN SelectSeq(list, LAMBDA b : b.barber \in {barberF, NoBarber})
    ELSE list

\* if (isUserAdmin && selectedBarberFilter !== "all") filter on barber?._id
barberStep(list, admin, barberF) ==
    IF admin /\ barberF # "all"
    THEN SelectSeq(list, LAMBDA b : b.barber = barberF)
    ELSE list

\* A day step that lets Invalid Dates through (not what the code does).
dayStep_keepsInvalid(list, dayF) ==
    IF dayF # "all"
    THEN SelectSeq(list, LAMBDA b :
            LET dateObj == parseISO(b.time)
            IN  ~isValid(dateObj) \/ String(getUTCDay(dateObj)) = dayF)
    ELSE list

\* A day step that always keeps the head of the list it is given (not what the
\* code does).
dayStep_keepsHead(list, dayF) ==
    IF dayF # "all" /\ list # <<>>
    THEN <<Head(list)>> \o
         SelectSeq(Tail(list), LAMBDA b :
            LET dateObj == parseISO(b.time)
            IN  IF ~isValid(dateObj) THEN FALSE
                ELSE String(getUTCDay(dateObj)) = dayF)
    ELSE list

\* if (selectedDayFilter !== "all") filter on the UTC weekday of the parsed time
dayStep(list, dayF) ==
    IF dayF # "all"
    THEN SelectSeq(list, LAMBDA b :
            LET dateObj == parseISO(b.time)
            IN  IF ~isValid(dateObj) THEN FALSE
                ELSE String(getUTCDay(dateObj)) = dayF)
    ELSE list

\* A show-past step that lets Invalid Dates through (not what the code does).
pastStep_keepsInvalid(list, showPast, n) ==
    IF ~showPast
    THEN SelectSeq(list, LAMBDA b :
            LET dateObj == parseISO(b.time)
            IN  ~isValid(dateObj) \/ ~isPast(dateObj, n))
    ELSE list

\* if (!showPastAppointments) filter on isValid(dateObj) && !isPast(dateObj)
pastStep(list, showPast, n) ==
    IF ~showPast
    THEN SelectSeq(list, LAMBDA b :
            LET dateObj == parseISO(b.time)
            IN  isValid(dateObj) /\ ~isPast(dateObj, n))
    ELSE list

filterSteps(bks, admin, barberF, dayF, showPast, n) ==
    pastStep(dayStep(barberStep(stringTimeStep(bks), admin, barberF), dayF),
             showPast, n)

----------------------------------------------------------------------------
(* displayedBookings: the sort *)

\* A comparator that ranks an Invalid Date first (not what the code does).
compareBookings_invalidFirst(a, b, n) ==
    LET dateA == parseISO(a.time)
        dateB == parseISO(b.time)
    IN  IF ~isValid(dateA) THEN -1
        ELSE IF ~isValid(dateB) THEN 1
        ELSE IF isPast(dateA, n) /\ ~isPast(dateB, n) THEN 1
        ELSE IF ~isPast(dateA, n) /\ isPast(dateB, n) THEN -1
        ELSE IF ~isPast(dateA, n) THEN differenceInMilliseconds(dateA, dateB)
        ELSE differenceInMilliseconds(dateB, dateA)

\* A comparator that ranks past bookings before future ones (not what the code does).
compareBookings_pastFirst(a, b, n) ==
    LET dateA == parseISO(a.time)
        dateB == parseISO(b.time)
    IN  IF ~isValid(dateA) THEN 1
        ELSE IF ~isValid(dateB) THEN -1
        ELSE IF isPast(dateA, n) /\ ~isPast(dateB, n) THEN -1
        ELSE IF ~isPast(dateA, n) /\ isPast(dateB, n) THEN 1
        ELSE IF ~isPast(dateA, n) THEN differenceInMilliseconds(dateA, dateB)
        ELSE differenceInMilliseconds(dateB, dateA)

\* A comparator whose future branch is descending (not what the code does).
compareBookings_futureDescending(a, b, n) ==
    LET dateA == parseISO(a.time)
        dateB == parseISO(b.time)
    IN  IF ~isValid(dateA) THEN 1
        ELSE IF ~isValid(dateB) THEN -1
        ELSE IF isPast(dateA, n) /\ ~isPast(dateB, n) THEN 1
        ELSE IF ~isPast(dateA, n) /\ isPast(dateB, n) THEN -1
        ELSE differenceInMilliseconds(dateB, dateA)

\* A comparator whose past branch is ascending (not what the code does).
compareBookings_pastAscending(a, b, n) ==
    LET dateA == parseISO(a.time)
        dateB == parseISO(b.time)
    IN  IF ~isValid(dateA) THEN 1
        ELSE IF ~isValid(dateB) THEN -1
        ELSE IF isPast(dateA, n) /\ ~isPast(dateB, n) THEN 1
        ELSE IF ~isPast(dateA, n) /\ isPast(dateB, n) THEN -1
        ELSE differenceInMilliseconds(dateA, dateB)

\* The comparator handed to filtered.sort; n is Date.now() as isPast reads it.
compareBookings(a, b, n) ==
    LET dateA == parseISO(a.time)
        dateB == parseISO(b.time)
        aIsPast == isPast(dateA, n)
        bIsPast == isPast(dateB, n)
    IN  IF ~isValid(dateA) THEN 1
        ELSE IF ~isValid(dateB) THEN -1
        ELSE IF aIsPast /\ ~bIsPast THEN 1
        ELSE IF ~aIsPast /\ bIsPast THEN -1
        ELSE IF ~aIsPast /\ ~bIsPast THEN differenceInMilliseconds(dateA, dateB)
        ELSE IF aIsPast /\ bIsPast THEN differenceInMilliseconds(dateB, dateA)
        ELSE 0

(* Array.prototype.sort.  The comparator answers 1 both ways for two Invalid  *)
(* Dates, so it is not a consistent comparison function and the order is left *)
(* to the engine.  Two engines' sorts of a short array are modelled: V8's     *)
(* (TimSort: for fewer than 64 elements, one run found and extended by binary *)
(* insertion, comparing the later element against the earlier) and            *)
(* SpiderMonkey's (insertion sort for short arrays, comparing the earlier     *)
(* element against the later).                                                *)

\* V8 CountAndMakeRun: the length of the run starting at the first element.
RECURSIVE V8RunLength(_, _, _, _)
V8RunLength(arr, k, isDescending, n) ==
    IF k = Len(arr) THEN k
    ELSE LET order == compareBookings(arr[k + 1], arr[k], n)
         IN  IF (isDescending /\ order >= 0) \/ (~isDescending /\ order < 0)
             THEN k
             ELSE V8RunLength(arr, k + 1, isDescending, n)

\* V8 BinaryInsertionSort: where the pivot goes in the sorted prefix arr[1..start-1].
RECURSIVE V8BinarySearch(_, _, _, _, _)
V8BinarySearch(arr, pivot, left, right, n) ==
    IF left < right
    THEN LET mid == left + ((right - left) \div 2)
         IN  IF compareBookings(pivot, arr[mid], n) < 0
             THEN V8BinarySearch(arr, pivot, left, mid, n)
             ELSE V8BinarySearch(arr, pivot, mid + 1, right, n)
    ELSE left

RECURSIVE V8BinaryInsertionSort(_, _, _)
V8BinaryInsertionSort(arr, start, n) ==
    IF start > Len(arr) THEN arr
    ELSE LET pivot == arr[start]
             left == V8BinarySearch(arr, pivot, 1, start, n)
             moved == SubSeq(arr, 1, left - 1) \o <<pivot>>
                      \o SubSeq(arr, left, start - 1)
                      \o SubSeq(arr, start + 1, Len(arr))
         IN  V8BinaryInsertionSort(moved, start + 1, n)

V8Sort(arr, n) ==
    IF Len(arr) < 2 THEN arr
    ELSE LET isDescending == compareBookings(arr[2], arr[1], n) < 0
             runLength == V8RunLength(arr, 2, isDescending, n)
             run == IF isDescending
                    THEN Reverse(SubSeq(arr, 1, runLength))
                         \o SubSeq(arr, runLength + 1, Len(arr))
                    ELSE arr
         IN  V8BinaryInsertionSort(run, runLength + 1, n)

\* SpiderMonkey insertion sort: how far left the item moves in the sorted prefix.
RECURSIVE SMInsertAt(_, _, _, _)
SMInsertAt(prefix, item, j, n) ==
    IF j = 0 THEN 0
    ELSE IF compareBookings(prefix[j], item, n) <= 0 THEN j
    ELSE SMInsertAt(prefix, item, j - 1, n)

RECURSIVE SMInsertionSort(_, _, _)
SMInsertionSort(arr, i, n) ==
    IF i > Len(arr) THEN arr
    ELSE LET item == arr[i]
             j == SMInsertAt(arr, item, i - 1, n)
             moved == SubSeq(arr, 1, j) \o <<item>>
                      \o SubSeq(arr, j + 1, i - 1)
                      \o SubSeq(arr, i + 1, Len(arr))
         IN  SMInsertionSort(moved, i + 1, n)

SpiderMonkeySort(arr, n) == SMInsertionSort(arr, 2, n)

\* The orders filtered.sort(compare) can leave the array in.
SortOutcomes(arr, n) == {V8Sort(arr, n), SpiderMonkeySort(arr, n)}

\* The useMemo callback of displayedBookings, run at instant n.
displayedBookingsMemo(bks, admin, barberF, dayF, showPast, n) ==
    SortOutcomes(filterSteps(bks, admin, barberF, dayF, showPast, n), n)

----------------------------------------------------------------------------
(* The calendar projection *)

\* new Date(date.getTime() + minutes * 60000); NaN stays an Invalid Date.
DatePlusMinutes(d, minutes) ==
    IF d.valid THEN [valid |-> TRUE, t |-> d.t + minutes]
    ELSE [valid |-> FALSE, t |-> 0]

\* A duration that never falls back (not what the code does).
serviceDuration_noFallback(booking) ==
    IF "duration" \in DOMAIN booking.service THEN booking.service.duration ELSE 0

\* const serviceDuration = booking.service?.duration || 60
serviceDuration(booking) ==
    IF "duration" \in DOMAIN booking.service /\ booking.service.duration # 0
    THEN booking.service.duration
    ELSE 60

\* A colour that falls back to the first palette colour (not what the code does).
eventColor_paletteFallback(booking, colorMap) ==
    IF booking.barber \in DOMAIN colorMap THEN colorMap[booking.barber]
    ELSE BARBER_COLORS[1]

\* barberColorMap.get(booking.barber?._id) || "#333333"
eventColor(booking, colorMap) ==
    IF booking.barber \in DOMAIN colorMap THEN colorMap[booking.barber] ELSE "#333333"

\* ref?.name || fallback
NameOr(ref, fallback) ==
    IF ref = NullRef \/ ref.name = "" THEN fallback ELSE ref.name

\* { ...booking, color }
WithColor(booking, color) ==
    [f \in DOMAIN booking \cup {"color"} |->
        IF f = "color" THEN color ELSE booking[f]]

\* The object the map callback returns for a booking it does not skip.
AgendaEvent(booking, colorMap) ==
    LET startTime == parseISO(booking.time)
        endTime == DatePlusMinutes(startTime, serviceDuration(booking))
    IN  [_id |-> booking._id,
         title |-> NameOr(booking.customer, "Cliente Removido") \o " - "
                       \o NameOr(booking.service, "Serviço Removido"),
         start |-> startTime,
         end |-> endTime,
         resource |-> WithColor(booking, eventColor(booking, colorMap))]

\* eventPropGetter of AgendaView: { style: { backgroundColor: event.resource?.color || "#333333" } }
eventPropGetter(event) ==
    [style |-> [backgroundColor |->
        IF "color" \in DOMAIN event.resource /\ event.resource.color # ""
        THEN event.resource.color
        ELSE "#333333"]]

\* A guard that tests the customer alone (not what the code does).
skipsBooking_customerOnly(booking) == booking.customer = NullRef

\* if (!booking.customer || !booking.service) return null
skipsBooking(booking) == booking.customer = NullRef \/ booking.service = NullRef

\* bookings.map(...).filter((event) => event !== null)
agendaEventsMemo(bks, colorMap) ==
    LET kept == SelectSeq(bks, LAMBDA b : ~skipsBooking(b))
    IN  [i \in 1..Len(kept) |-> AgendaEvent(kept[i], colorMap)]

----------------------------------------------------------------------------
(* Status badges *)

\* formatBookingTime at instant n: format() throws a RangeError on an Invalid
\* Date and the catch answers the placeholders with isPast false.  The two
\* formatted strings of a valid date are kept as the date they were made from.
formatBookingTime(isoTime, n) ==
    LET dateObj == parseISO(isoTime)
    IN  IF dateObj.valid
        THEN [date |-> <<"dd/MM/yyyy", dateObj.t>>, time |-> <<"HH:mm", dateObj.t>>,
              isPast |-> isPast(dateObj, n)]
        ELSE [date |-> "Data inválida", time |-> "Hora inválida", isPast |-> FALSE]

\* A label that ignores whether the booking is past (not what the table does).
tableBadgeText_ignoresPast(status, bookingIsPast) ==
    IF status = "booked" THEN "Agendado"
    ELSE IF status = "completed" THEN "Concluído"
    ELSE IF status = "canceled" THEN "Cancelado"
    ELSE status

\* The children of the table's <Badge>.
tableBadgeText(status, bookingIsPast) ==
    IF bookingIsPast /\ status = "booked" THEN "Ocorrido"
    ELSE IF status = "booked" THEN "Agendado"
    ELSE IF status = "completed" THEN "Concluído"
    ELSE IF status = "canceled" THEN "Cancelado"
    ELSE status

\* The className of the table's <Badge>.
tableBadgeClassName(status, bookingIsPast) ==
    IF bookingIsPast /\ status = "booked" THEN "bg-yellow-100 text-yellow-700 border-yellow-300"
    ELSE IF status = "canceled" THEN "bg-red-100 text-red-700 border-red-300"
    ELSE IF status = "booked" THEN "bg-blue-100 text-blue-700 border-blue-300"
    ELSE IF status = "completed" THEN "bg-green-100 text-green-700 border-green-300"
    ELSE ""

\* The badge of a table row rendered at instant n.
TableBadge(booking, n) ==
    LET bookingIsPast == formatBookingTime(booking.time, n).isPast
    IN  [text |-> tableBadgeText(booking.status, bookingIsPast),
         className |-> tableBadgeClassName(booking.status, bookingIsPast)]

\* The customer and service cells of a table row:
\* booking.customer?.name || "Cliente excluído" and the same for the service.
TableCells(booking) ==
    [customer |-> NameOr(booking.customer, "Cliente excluído"),
     service |-> NameOr(booking.service, "Serviço excluído")]

\* getStatusInfo(status) of the page with the table: the switch behind the
\* badge of the details dialog.
getStatusInfo(status) ==
    CASE status = "completed" ->
             [text |-> "Concluído", className |-> "bg-green-100 text-green-800 border-green-200"]
      [] status = "canceled" ->
             [text |-> "Cancelado", className |-> "bg-red-100 text-red-800 border-red-200"]
      [] status = "confirmed" ->
             [text |-> "Confirmado", className |-> "bg-blue-100 text-blue-800 border-blue-200"]
      [] OTHER ->
             [text |-> "Agendado", className |-> "bg-gray-200 text-gray-800 border-gray-300"]

\* new Date(booking.time): the same instant as parseISO for a complete ISO
\* string, an Invalid Date for anything else.
NewDate(s) ==
    IF s.fmt = "iso"
    THEN [valid |-> TRUE, t |-> (s.day * DayMinutes + s.min) - s.off]
    ELSE [valid |-> FALSE, t |-> 0]

\* getStatusInfo(booking) of the calendar-only page, called at instant n.
calendarGetStatusInfo(booking, n) ==
    LET bookingIsPast == isPast(NewDate(booking.time), n)
    IN  IF bookingIsPast /\ booking.status = "booked"
        THEN [text |-> "Ocorrido", className |-> "bg-yellow-100 text-yellow-800 border-yellow-200"]
        ELSE getStatusInfo(booking.status)

----------------------------------------------------------------------------
(* Values of the dashboard and of the products page *)

\* new Date().getFullYear() and getMonth() + 1 at NowStart, as strings.
CurrentYear == "2024"
CurrentMonth == "1"

\* Only the fields validateProduct reads are kept of the product form, and only
\* those validateStock reads of the stock form.
ProductForm(name, category, purchase, sale, current, minimum) ==
    [name |-> name, category |-> category,
     price |-> [purchase |-> purchase, sale |-> sale],
     stock |-> [current |-> current, minimum |-> minimum]]

StockForm(quantity, unitCost) == [quantity |-> quantity, unitCost |-> unitCost]

\* The forms as useState and resetProductForm / resetStockForm make them.
EmptyProductForm == ProductForm("", "", 0, 0, 0, 5)

EmptyStockForm == StockForm(1, 0)

----------------------------------------------------------------------------
(* The page *)

\* What booking.barber?._id can be in a fetched booking.
BarberRefs == {NoBarber} \cup ShopBarbers

\* The staff reference and time field of the i-th of k fetched bookings in Spec:
\* any for the first and the last, few for those in between.
ResponseFields(i, k) ==
    IF i = 1 \/ i = k THEN BarberRefs \X TimeStrings
    ELSE {NoBarber, BarberId(1)} \X {NotADate, MonAfternoon}

\* The booking lists GET /barbershops/{id}/bookings answers with in Spec.
ResponsesOfLen(k) ==
    {[i \in 1..k |-> Booking(i, f[i][1], f[i][2])] :
        f \in {g \in [1..k -> BarberRefs \X TimeStrings] :
                  \A i \in 1..k : g[i] \in ResponseFields(i, k)}}

Responses == UNION {ResponsesOfLen(k) : k \in 0..MaxBookings}

Init ==
    /\ bookings = <<>>
    /\ allBarbers = {}
    /\ isLoading = TRUE
    /\ error = NULL
    /\ selectedDayFilter = "all"
    /\ selectedBarberFilter = "all"
    /\ showPastAppointments = FALSE
    /\ isUserAdmin \in BOOLEAN
    /\ now = NowStart
    /\ barberColorMap = <<>>
    /\ displayedBookings = <<>>
    /\ evalNow = NowStart
    /\ agendaEvents = <<>>
    /\ selectedBooking = NullRef
    /\ isModalOpen = FALSE
    /\ bookingToDelete = NoBooking
    /\ isDeleting = FALSE
    /\ requests = {}
    /\ requestsIssued = 0
    /\ toasts = {}
    /\ selectedBarberId = "all"
    /\ isUpdatingStatus = FALSE
    /\ data = NullRef
    /\ selectedYear = CurrentYear
    /\ selectedMonth = CurrentMonth
    /\ filterMode = "month"
    /\ dateRange = NullRef
    /\ productForm = EmptyProductForm
    /\ stockForm = EmptyStockForm
    /\ selectedProduct = NullRef
    /\ errors = <<>>
    /\ submitting = FALSE
    /\ productModal = FALSE
    /\ stockModal = FALSE
    /\ products = <<>>
    /\ loading = TRUE

\* A render after bookings or a filter changed: both memos are brought up to date.
Render(bks, barberF, dayF, showPast) ==
    /\ displayedBookings' \in
           displayedBookingsMemo(bks, isUserAdmin, barberF, dayF, showPast, now)
    /\ evalNow' = now
    /\ barberColorMap' = barberColorMapMemo(bks, displayedBookings')
    /\ agendaEvents' = agendaEventsMemo(bks, barberColorMap')

\* fetchPageData resolves: setAllBarbers (admin only), setBookings, setIsLoading(false).
FetchPageDataOk(resp) ==
    /\ isLoading
    /\ bookings' = resp
    /\ allBarbers' = IF isUserAdmin THEN ShopBarbers ELSE allBarbers
    /\ isLoading' = FALSE
    /\ Render(resp, selectedBarberFilter, selectedDayFilter, showPastAppointments)
    /\ UNCHANGED <<error, selectedDayFilter, selectedBarberFilter,
                   showPastAppointments, isUserAdmin, now>>
    /\ UNCHANGED <<handlerVars, calendarVars, otherPages>>

\* fetchPageData rejects: setError, setIsLoading(false); bookings are left alone.
FetchPageDataFail ==
    /\ isLoading
    /\ error' = "Não foi possível carregar os dados."
    /\ isLoading' = FALSE
    /\ UNCHANGED <<bookings, allBarbers, selectedDayFilter, selectedBarberFilter,
                   showPastAppointments, isUserAdmin, now, barberColorMap,
                   displayedBookings, evalNow, agendaEvents>>
    /\ UNCHANGED <<handlerVars, calendarVars, otherPages>>

\* The staff select, rendered for admins only, offers "all" and allBarbers.
SetSelectedBarberFilter(v) ==
    /\ isUserAdmin
    /\ v \in {"all"} \cup allBarbers
    /\ v # selectedBarberFilter
    /\ selectedBarberFilter' = v
    /\ Render(bookings, v, selectedDayFilter, showPastAppointments)
    /\ UNCHANGED <<bookings, allBarbers, isLoading, error, selectedDayFilter,
                   showPastAppointments, isUserAdmin, now>>
    /\ UNCHANGED <<handlerVars, calendarVars, otherPages>>

SetSelectedDayFilter(v) ==
    /\ v \in DayFilterValues
    /\ v # selectedDayFilter
    /\ selectedDayFilter' = v
    /\ Render(bookings, selectedBarberFilter, v, showPastAppointments)
    /\ UNCHANGED <<bookings, allBarbers, isLoading, error, selectedBarberFilter,
                   showPastAppointments, isUserAdmin, now>>
    /\ UNCHANGED <<handlerVars, calendarVars, otherPages>>

SetShowPastAppointments(v) ==
    /\ v # showPastAppointments
    /\ showPastAppointments' = v
    /\ Render(bookings, selectedBarberFilter, selectedDayFilter, v)
    /\ UNCHANGED <<bookings, allBarbers, isLoading, error, selectedDayFilter,
                   selectedBarberFilter, isUserAdmin, now>>
    /\ UNCHANGED <<handlerVars, calendarVars, otherPages>>

\* Time passes; nothing re-renders.
Tick ==
    /\ now + TickStep \in NowValues
    /\ now' = now + TickStep
    /\ UNCHANGED <<bookings, allBarbers, isLoading, error, selectedDayFilter,
                   selectedBarberFilter, showPastAppointments, isUserAdmin,
                   barberColorMap, displayedBookings, evalNow, agendaEvents>>
    /\ UNCHANGED <<handlerVars, calendarVars, otherPages>>

Next ==
    \/ \E resp \in Responses : FetchPageDataOk(resp)
    \/ FetchPageDataFail
    \/ \E v \in {"all"} \cup ShopBarbers : SetSelectedBarberFilter(v)
    \/ \E v \in DayFilterValues : SetSelectedDayFilter(v)
    \/ \E v \in BOOLEAN : SetShowPastAppointments(v)
    \/ Tick

Spec == Init /\ [][Next]_vars

----------------------------------------------------------------------------
(* The details dialog *)

\* handleSelectEvent(event), called by the calendar with one of its events.
HandleSelectEvent(i) ==
    /\ i \in DOMAIN agendaEvents
    /\ selectedBooking' = agendaEvents[i].resource
    /\ isModalOpen' = TRUE
    /\ UNCHANGED <<bookings, allBarbers, isLoading, error, selectedDayFilter,
                   selectedBarberFilter, showPastAppointments, isUserAdmin, now,
                   barberColorMap, displayedBookings, evalNow, agendaEvents,
                   bookingToDelete, isDeleting, requests, requestsIssued, toasts>>
    /\ UNCHANGED <<calendarVars, otherPages>>

\* onOpenChange of the dialog: setIsModalOpen(open); it is closed from inside.
SetIsModalOpen(open) ==
    /\ open = FALSE
    /\ isModalOpen
    /\ isModalOpen' = open
    /\ UNCHANGED <<bookings, allBarbers, isLoading, error, selectedDayFilter,
                   selectedBarberFilter, showPastAppointments, isUserAdmin, now,
                   barberColorMap, displayedBookings, evalNow, agendaEvents,
                   selectedBooking, bookingToDelete, isDeleting, requests,
                   requestsIssued, toasts>>
    /\ UNCHANGED <<calendarVars, otherPages>>

----------------------------------------------------------------------------
(* Row actions: cancel, mark as completed, delete *)

\* The variables a row action leaves alone whatever it does.
filterVars == <<allBarbers, isLoading, error, selectedDayFilter, selectedBarberFilter,
                showPastAppointments, isUserAdmin, now>>

\* bookings.map((b) => (b._id === bookingId ? { ...b, status } : b))
WithStatus(bks, bookingId, status) ==
    [i \in DOMAIN bks |->
        IF bks[i]._id = bookingId THEN [bks[i] EXCEPT !.status = status] ELSE bks[i]]

\* A copy taken after the patch (not what the code does).
CopyOf_patched(bks, bookingId, status) == WithStatus(bks, bookingId, status)

\* const originalBookings = [...bookings], taken before the patch.
CopyOf(bks, bookingId, status) == bks

\* bookings.filter((booking) => booking._id !== bookingId)
Without(bks, bookingId) == SelectSeq(bks, LAMBDA b : b._id # bookingId)

\* The rows of the table: the bookings on display.
IsRow(bookingId) == \E i \in DOMAIN displayedBookings : displayedBookings[i]._id = bookingId

RowOf(bookingId) ==
    displayedBookings[CHOOSE i \in DOMAIN displayedBookings :
                          displayedBookings[i]._id = bookingId]

\* The "Concluir" button is rendered for booked and confirmed rows, never disabled.
ConcluirShown(bookingId) ==
    IsRow(bookingId) /\ RowOf(bookingId).status \in {"booked", "confirmed"}

\* disabled={isDeleting || booking.status === "canceled"} of the trash button.
TrashEnabled(bookingId) ==
    IsRow(bookingId) /\ ~(isDeleting \/ RowOf(bookingId).status = "canceled")

RowIsPast(bookingId) == formatBookingTime(RowOf(bookingId).time, now).isPast

\* An awaited apiClient call: what was asked, and what the handler that waits
\* for the answer holds in its closure.
Request(id, method, bookingId, status, originalBookings) ==
    [id |-> id, method |-> method, bookingId |-> bookingId, status |-> status,
     originalBookings |-> originalBookings]

Toast(type, text, request) == [type |-> type, text |-> text, request |-> request]

\* The optimistic part of handleCancelBooking / handleMarkAsCompleted, up to the await.
StartStatusUpdate(bookingId, status) ==
    /\ requestsIssued < MaxRequests
    /\ requestsIssued' = requestsIssued + 1
    /\ requests' = requests \cup
           {Request(requestsIssued', "PUT", bookingId, status,
                    CopyOf(bookings, bookingId, status))}
    /\ bookings' = WithStatus(bookings, bookingId, status)
    /\ Render(bookings', selectedBarberFilter, selectedDayFilter, showPastAppointments)
    /\ UNCHANGED <<filterVars, selectedBooking, isModalOpen, bookingToDelete,
                   isDeleting, toasts, calendarVars, otherPages>>

\* The trash button of a row that is not past: handleCancelBooking(booking._id).
HandleCancelBooking(bookingId) ==
    /\ TrashEnabled(bookingId)
    /\ ~RowIsPast(bookingId)
    /\ StartStatusUpdate(bookingId, "canceled")

\* The "Concluir" button: handleMarkAsCompleted(booking._id).
HandleMarkAsCompleted(bookingId) ==
    /\ ConcluirShown(bookingId)
    /\ StartStatusUpdate(bookingId, "completed")

SuccessText(status) ==
    IF status = "canceled" THEN "Agendamento cancelado com sucesso."
    ELSE "Agendamento marcado como concluído! A comissão foi gerada."

FailureText(status) ==
    IF status = "canceled" THEN "Falha ao cancelar o agendamento."
    ELSE "Falha ao atualizar o status do agendamento."

\* The PUT resolves: toast.success.
PutOk(r) ==
    /\ r \in requests
    /\ r.method = "PUT"
    /\ requests' = requests \ {r}
    /\ toasts' = toasts \cup {Toast("success", SuccessText(r.status), r.id)}
    /\ UNCHANGED <<bookings, filterVars, barberColorMap, displayedBookings, evalNow,
                   agendaEvents, selectedBooking, isModalOpen, bookingToDelete,
                   isDeleting, requestsIssued, calendarVars, otherPages>>

\* The PUT rejects: setBookings(originalBookings), toast.error.
PutFail(r) ==
    /\ r \in requests
    /\ r.method = "PUT"
    /\ requests' = requests \ {r}
    /\ bookings' = r.originalBookings
    /\ Render(bookings', selectedBarberFilter, selectedDayFilter, showPastAppointments)
    /\ toasts' = toasts \cup {Toast("error", FailureText(r.status), r.id)}
    /\ UNCHANGED <<filterVars, selectedBooking, isModalOpen, bookingToDelete,
                   isDeleting, requestsIssued, calendarVars, otherPages>>

\* The trash button of a past row: setBookingToDelete(booking._id).
SetBookingToDelete(bookingId) ==
    /\ TrashEnabled(bookingId)
    /\ RowIsPast(bookingId)
    /\ bookingToDelete' = bookingId
    /\ UNCHANGED <<bookings, filterVars, barberColorMap, displayedBookings, evalNow,
                   agendaEvents, selectedBooking, isModalOpen, isDeleting, requests,
                   requestsIssued, toasts, calendarVars, otherPages>>

\* onOpenChange of the confirmation dialog: setBookingToDelete(null).
CloseDeleteDialog ==
    /\ bookingToDelete # NoBooking
    /\ bookingToDelete' = NoBooking
    /\ UNCHANGED <<bookings, filterVars, barberColorMap, displayedBookings, evalNow,
                   agendaEvents, selectedBooking, isModalOpen, isDeleting, requests,
                   requestsIssued, toasts, calendarVars, otherPages>>

\* "Excluir" in the confirmation dialog: handleDeleteBooking(bookingToDelete) up
\* to the await.
HandleDeleteBooking ==
    /\ bookingToDelete # NoBooking
    /\ ~isDeleting
    /\ requestsIssued < MaxRequests
    /\ requestsIssued' = requestsIssued + 1
    /\ isDeleting' = TRUE
    /\ requests' = requests \cup
           {Request(requestsIssued', "DELETE", bookingToDelete, "deleted", bookings)}
    /\ UNCHANGED <<bookings, filterVars, barberColorMap, displayedBookings, evalNow,
                   agendaEvents, selectedBooking, isModalOpen, bookingToDelete,
                   toasts, calendarVars, otherPages>>

\* The DELETE resolves: setBookings(bookings.filter(...)) over the bookings of
\* the handler's closure, toast.success, then the finally block.
DeleteOk(r) ==
    /\ r \in requests
    /\ r.method = "DELETE"
    /\ requests' = requests \ {r}
    /\ bookings' = Without(r.originalBookings, r.bookingId)
    /\ Render(bookings', selectedBarberFilter, selectedDayFilter, showPastAppointments)
    /\ toasts' = toasts \cup {Toast("success", "Agendamento excluído com sucesso!", r.id)}
    /\ isDeleting' = FALSE
    /\ bookingToDelete' = NoBooking
    /\ UNCHANGED <<filterVars, selectedBooking, isModalOpen, requestsIssued,
                   calendarVars, otherPages>>

\* The DELETE rejects: toast.error, then the finally block.
DeleteFail(r) ==
    /\ r \in requests
    /\ r.method = "DELETE"
    /\ requests' = requests \ {r}
    /\ toasts' = toasts \cup {Toast("error", "Erro ao excluir agendamento", r.id)}
    /\ isDeleting' = FALSE
    /\ bookingToDelete' = NoBooking
    /\ UNCHANGED <<bookings, filterVars, barberColorMap, displayedBookings, evalNow,
                   agendaEvents, selectedBooking, isModalOpen, requestsIssued,
                   calendarVars, otherPages>>

----------------------------------------------------------------------------
(* The calendar-only page *)

\* The filteredBookings useMemo callback.
filteredBookings(bks, barberId) ==
    IF barberId = "all" THEN bks
    ELSE SelectSeq(bks, LAMBDA b : b.barber = barberId)

\* A render of the calendar-only page after bookings or the staff select
\* changed: colour map, filtered list and events are brought up to date.
CalendarRender(bks, barberId) ==
    /\ barberColorMap' = ComputeBarberColorMap(bks)
    /\ agendaEvents' = agendaEventsMemo(filteredBookings(bks, barberId), barberColorMap')

\* The variables the calendar-only page does not have, or never sets.
offCalendarVars == <<selectedDayFilter, selectedBarberFilter, showPastAppointments,
                     displayedBookings, evalNow, bookingToDelete, isDeleting>>

\* fetchPageData of the calendar-only page resolves.
CalendarFetchPageDataOk(resp) ==
    /\ isLoading
    /\ bookings' = resp
    /\ allBarbers' = IF isUserAdmin THEN ShopBarbers ELSE allBarbers
    /\ isLoading' = FALSE
    /\ CalendarRender(resp, selectedBarberId)
    /\ UNCHANGED <<error, isUserAdmin, now, selectedBooking, isModalOpen, requests,
                   requestsIssued, toasts, selectedBarberId, isUpdatingStatus>>
    /\ UNCHANGED <<offCalendarVars, otherPages>>

\* The staff select offers "all" and allBarbers to every user.
SetSelectedBarberId(v) ==
    /\ v \in {"all"} \cup allBarbers
    /\ v # selectedBarberId
    /\ selectedBarberId' = v
    /\ CalendarRender(bookings, v)
    /\ UNCHANGED <<bookings, allBarbers, isLoading, error, isUserAdmin, now,
                   selectedBooking, isModalOpen, requests, requestsIssued, toasts,
                   isUpdatingStatus>>
    /\ UNCHANGED <<offCalendarVars, otherPages>>

\* "Cancelar" / "Concluir" of the dialog, shown for a booked or confirmed
\* selectedBooking and disabled while isUpdatingStatus:
\* handleUpdateBookingStatus(selectedBooking._id, status) up to the await.
HandleUpdateBookingStatus(status) ==
    /\ isModalOpen
    /\ selectedBooking # NullRef
    /\ selectedBooking.status \in {"booked", "confirmed"}
    /\ ~isUpdatingStatus
    /\ requestsIssued < MaxRequests
    /\ isUpdatingStatus' = TRUE
    /\ requestsIssued' = requestsIssued + 1
    /\ requests' = requests \cup
           {Request(requestsIssued', "PUT", selectedBooking._id, status,
                    CopyOf(bookings, selectedBooking._id, status))}
    /\ bookings' = WithStatus(bookings, selectedBooking._id, status)
    /\ CalendarRender(bookings', selectedBarberId)
    /\ UNCHANGED <<allBarbers, isLoading, error, isUserAdmin, now, selectedBooking,
                   isModalOpen, toasts, selectedBarberId>>
    /\ UNCHANGED <<offCalendarVars, otherPages>>

UpdatedText(status) ==
    IF status = "completed" THEN "Agendamento atualizado para \"Concluído\"!"
    ELSE "Agendamento atualizado para \"Cancelado\"!"

\* The PUT resolves: toast.success, setIsModalOpen(false), then the finally block.
UpdateOk(r) ==
    /\ r \in requests
    /\ requests' = requests \ {r}
    /\ toasts' = toasts \cup {Toast("success", UpdatedText(r.status), r.id)}
    /\ isModalOpen' = FALSE
    /\ isUpdatingStatus' = FALSE
    /\ UNCHANGED <<bookings, allBarbers, isLoading, error, isUserAdmin, now,
                   barberColorMap, agendaEvents, selectedBooking, requestsIssued,
                   selectedBarberId>>
    /\ UNCHANGED <<offCalendarVars, otherPages>>

\* The PUT rejects: setBookings(originalBookings), toast.error, then the finally block.
UpdateFail(r) ==
    /\ r \in requests
    /\ requests' = requests \ {r}
    /\ bookings' = r.originalBookings
    /\ CalendarRender(bookings', selectedBarberId)
    /\ toasts' = toasts \cup
           {Toast("error", "Falha ao atualizar o status do agendamento.", r.id)}
    /\ isUpdatingStatus' = FALSE
    /\ UNCHANGED <<allBarbers, isLoading, error, isUserAdmin, now, selectedBooking,
                   isModalOpen, requestsIssued, selectedBarberId>>
    /\ UNCHANGED <<offCalendarVars, otherPages>>

\* Bookings of two staff members and of none, booked, in the future.
CalendarResponsesOfLen(k) ==
    {[i \in 1..k |-> Booking(i, f[i], MonAfternoon)] : f \in [1..k -> BarberRefs]}

CalendarResponses == UNION {CalendarResponsesOfLen(k) : k \in 0..MaxBookings}

NextCalendar ==
    \/ \E resp \in CalendarResponses : CalendarFetchPageDataOk(resp)
    \/ \E v \in {"all"} \cup ShopBarbers : SetSelectedBarberId(v)
    \/ \E i \in 1..MaxBookings : HandleSelectEvent(i)
    \/ SetIsModalOpen(FALSE)
    \/ \E status \in {"completed", "canceled"} : HandleUpdateBookingStatus(status)
    \/ \E r \in requests : UpdateOk(r)
    \/ \E r \in requests : UpdateFail(r)

SpecCalendar == Init /\ [][NextCalendar]_vars

----------------------------------------------------------------------------
(* The dashboard *)

\* The state of the appointment pages, which the other pages do not have.
appointmentVars == <<bookings, allBarbers, selectedDayFilter, selectedBarberFilter,
                     showPastAppointments, isUserAdmin, now, barberColorMap,
                     displayedBookings, evalNow, agendaEvents, selectedBooking,
                     isModalOpen, bookingToDelete, isDeleting, calendarVars>>

\* parseInt(str, 10) on the strings the selects hold.
ParseInt(str) ==
    CASE str = "1" -> 1
      [] str = "2" -> 2
      [] str = "2023" -> 2023
      [] str = "2024" -> 2024

Day(y, m, d) == [y |-> y, m |-> m, d |-> d]

DaysInMonth(y, m) ==
    IF m = 2 THEN (IF y % 4 = 0 /\ (y % 100 # 0 \/ y % 400 = 0) THEN 29 ELSE 28)
    ELSE IF m \in {4, 6, 9, 11} THEN 30 ELSE 31

startOfMonth(y, m) == Day(y, m, 1)
endOfMonth(y, m) == Day(y, m, DaysInMonth(y, m))

\* The selects and the date picker of the dashboard.
YearChoices == {"2024", "2023"}
MonthChoices == {"1", "2"}
RangeChoices ==
    {NullRef, [from |-> Day(2024, 1, 10)],
     [from |-> Day(2024, 1, 10), to |-> Day(2024, 1, 20)]}

\* The params of the request the useEffect sends for a filter state: start and
\* end as format(date, "yyyy-MM-dd") writes them.
ParamsFor(year, month, mode, range) ==
    IF mode = "month"
    THEN [startDate |-> startOfMonth(ParseInt(year), ParseInt(month)),
          endDate |-> endOfMonth(ParseInt(year), ParseInt(month))]
    ELSE IF range # NullRef /\ "to" \in DOMAIN range
    THEN [startDate |-> range.from, endDate |-> range.to]
    ELSE IF range # NullRef
    THEN [startDate |-> range.from, endDate |-> range.from]
    ELSE [startDate |-> startOfMonth(ParseInt(CurrentYear), ParseInt(CurrentMonth)),
          endDate |-> endOfMonth(ParseInt(CurrentYear), ParseInt(CurrentMonth))]

\* What the backend answers for a period: the metrics of that period.
MetricsOf(params) == [period |-> params]

MetricsRequest(id, params) == [id |-> id, method |-> "GET", params |-> params]

\* fetchDashboardMetrics(start, end) up to the await, as the useEffect calls it.
FetchDashboardMetrics(year, month, mode, range) ==
    /\ requestsIssued < MaxRequests
    /\ requestsIssued' = requestsIssued + 1
    /\ isLoading' = TRUE
    /\ error' = NULL
    /\ requests' = requests \cup
           {MetricsRequest(requestsIssued', ParamsFor(year, month, mode, range))}
    /\ UNCHANGED <<data, toasts, appointmentVars, productVars>>

\* The useEffect at mount.
DashboardMount ==
    /\ requestsIssued = 0
    /\ FetchDashboardMetrics(selectedYear, selectedMonth, filterMode, dateRange)
    /\ UNCHANGED <<selectedYear, selectedMonth, filterMode, dateRange>>

\* The setters of the four filters; each change re-runs the useEffect.
SetSelectedMonth(v) ==
    /\ requestsIssued > 0
    /\ v # selectedMonth
    /\ selectedMonth' = v
    /\ FetchDashboardMetrics(selectedYear, v, filterMode, dateRange)
    /\ UNCHANGED <<selectedYear, filterMode, dateRange>>

SetSelectedYear(v) ==
    /\ requestsIssued > 0
    /\ v # selectedYear
    /\ selectedYear' = v
    /\ FetchDashboardMetrics(v, selectedMonth, filterMode, dateRange)
    /\ UNCHANGED <<selectedMonth, filterMode, dateRange>>

SetFilterMode(v) ==
    /\ requestsIssued > 0
    /\ v # filterMode
    /\ filterMode' = v
    /\ FetchDashboardMetrics(selectedYear, selectedMonth, v, dateRange)
    /\ UNCHANGED <<selectedYear, selectedMonth, dateRange>>

SetDateRange(v) ==
    /\ requestsIssued > 0
    /\ v # dateRange
    /\ dateRange' = v
    /\ FetchDashboardMetrics(selectedYear, selectedMonth, filterMode, v)
    /\ UNCHANGED <<selectedYear, selectedMonth, filterMode>>

\* The GET resolves: setData(response.data), then the finally block.
MetricsOk(r) ==
    /\ r \in requests
    /\ requests' = requests \ {r}
    /\ data' = MetricsOf(r.params)
    /\ isLoading' = FALSE
    /\ UNCHANGED <<error, requestsIssued, toasts, selectedYear, selectedMonth,
                   filterMode, dateRange, appointmentVars, productVars>>

\* The GET rejects: setError, toast.error, setData(null), then the finally block.
MetricsFail(r) ==
    /\ r \in requests
    /\ requests' = requests \ {r}
    /\ error' = "Não foi possível carregar as métricas."
    /\ toasts' = toasts \cup {Toast("error", "Falha ao buscar métricas.", r.id)}
    /\ data' = NullRef
    /\ isLoading' = FALSE
    /\ UNCHANGED <<requestsIssued, selectedYear, selectedMonth, filterMode,
                   dateRange, appointmentVars, productVars>>

NextDashboard ==
    \/ DashboardMount
    \/ \E v \in MonthChoices : SetSelectedMonth(v)
    \/ \E v \in YearChoices : SetSelectedYear(v)
    \/ \E v \in {"month", "range"} : SetFilterMode(v)
    \/ \E v \in RangeChoices : SetDateRange(v)
    \/ \E r \in requests : MetricsOk(r)
    \/ \E r \in requests : MetricsFail(r)

SpecDashboard == Init /\ [][NextDashboard]_vars

----------------------------------------------------------------------------
(* The products page *)

\* The product the backend lists.
Pomada ==
    [_id |-> "p1", name |-> "Pomada", category |-> "cabelo",
     price |-> [purchase |-> 0, sale |-> 0], stock |-> [current |-> 0, minimum |-> 5]]

\* str.trim() on the names typed.
Trim(str) == IF str = " " THEN "" ELSE str

\* parseFloat(text) || fallback and parseInt(text) || fallback on the texts typed
\* into the number inputs: the empty text parses to NaN.
NumberOr(text, fallback) ==
    CASE text = "" -> fallback
      [] text = "0" -> fallback
      [] text = "-1" -> -1

\* A Record<string, string> from its entries.
RecordOf(entries) ==
    [key \in {e[1] : e \in entries} |-> (CHOOSE e \in entries : e[1] = key)[2]]

\* A validation that forgets the category (not what the code does).
validateProduct_skipsCategory(form) ==
    RecordOf({e \in {<<"name", "Nome é obrigatório">>} : Trim(form.name) = ""})

\* newErrors of validateProduct.
validateProduct(form) ==
    RecordOf(
        {e \in {<<"name", "Nome é obrigatório">>} : Trim(form.name) = ""}
        \cup {e \in {<<"category", "Categoria é obrigatória">>} : form.category = ""}
        \cup {e \in {<<"purchasePrice", "Preço de compra deve ser positivo">>} :
                  form.price.purchase < 0}
        \cup {e \in {<<"salePrice", "Preço de venda deve ser positivo">>} :
                  form.price.sale < 0}
        \cup {e \in {<<"currentStock", "Estoque atual deve ser positivo">>} :
                  form.stock.current < 0}
        \cup {e \in {<<"minimumStock", "Estoque mínimo deve ser positivo">>} :
                  form.stock.minimum < 0})

\* newErrors of validateStock.
validateStock(form) ==
    RecordOf(
        {e \in {<<"quantity", "Quantidade deve ser maior que zero">>} :
            form.quantity <= 0}
        \cup {e \in {<<"unitCost", "Custo unitário deve ser positivo">>} :
                  form.unitCost < 0})

ProductRequest(id, method, body) == [id |-> id, method |-> method, body |-> body]

\* fetchProducts() up to the await.
FetchProducts ==
    /\ loading' = TRUE
    /\ requestsIssued' = requestsIssued + 1
    /\ requests' = requests \cup {ProductRequest(requestsIssued', "GET", "products")}

\* The useEffect at mount (its timer fires).
ProductsMount ==
    /\ requestsIssued = 0
    /\ FetchProducts
    /\ UNCHANGED <<productForm, stockForm, selectedProduct, errors, submitting,
                   productModal, stockModal, products>>
    /\ UNCHANGED <<isLoading, error, toasts, appointmentVars, dashboardVars>>

\* The GET resolves: setProducts(response.data.products), setLoading(false).
FetchProductsOk(r) ==
    /\ r \in requests
    /\ r.method = "GET"
    /\ requests' = requests \ {r}
    /\ products' = <<Pomada>>
    /\ loading' = FALSE
    /\ UNCHANGED <<productForm, stockForm, selectedProduct, errors, submitting,
                   productModal, stockModal, requestsIssued>>
    /\ UNCHANGED <<isLoading, error, toasts, appointmentVars, dashboardVars>>

\* The GET rejects: toast.error, setLoading(false).
FetchProductsFail(r) ==
    /\ r \in requests
    /\ r.method = "GET"
    /\ requests' = requests \ {r}
    /\ toasts' = toasts \cup {Toast("error", "Erro ao carregar produtos", r.id)}
    /\ loading' = FALSE
    /\ UNCHANGED <<productForm, stockForm, selectedProduct, errors, submitting,
                   productModal, stockModal, products, requestsIssued>>
    /\ UNCHANGED <<isLoading, error, appointmentVars, dashboardVars>>

\* What no form action touches.
offFormVars == <<isLoading, error, requests, requestsIssued, toasts, products, loading,
                 submitting, appointmentVars, dashboardVars>>

\* openProductModal(product): NullRef for the "new product" button.
OpenProductModal(product) ==
    /\ ~productModal /\ ~stockModal
    /\ product = NullRef \/ product \in Range(products)
    /\ selectedProduct' = product
    /\ productForm' = IF product = NullRef THEN EmptyProductForm
                      ELSE ProductForm(product.name, product.category,
                                       product.price.purchase, product.price.sale,
                                       product.stock.current, product.stock.minimum)
    /\ errors' = <<>>
    /\ productModal' = TRUE
    /\ UNCHANGED <<stockForm, stockModal, offFormVars>>

\* openStockModal(product)
OpenStockModal(product) ==
    /\ ~productModal /\ ~stockModal
    /\ product \in Range(products)
    /\ selectedProduct' = product
    /\ stockForm' = StockForm(1, product.price.purchase)
    /\ errors' = <<>>
    /\ stockModal' = TRUE
    /\ UNCHANGED <<productForm, productModal, offFormVars>>

\* onOpenChange of the two dialogs, which close from inside.
SetProductModal(open) ==
    /\ open = FALSE
    /\ productModal
    /\ productModal' = open
    /\ UNCHANGED <<productForm, stockForm, selectedProduct, errors, stockModal,
                   offFormVars>>

SetStockModal(open) ==
    /\ open = FALSE
    /\ stockModal
    /\ stockModal' = open
    /\ UNCHANGED <<productForm, stockForm, selectedProduct, errors, productModal,
                   offFormVars>>

\* The onChange handlers of the product form.
ChangeProductForm(form) ==
    /\ productModal
    /\ form # productForm
    /\ productForm' = form
    /\ UNCHANGED <<stockForm, selectedProduct, errors, productModal, stockModal,
                   offFormVars>>

SetName(text) == ChangeProductForm([productForm EXCEPT !.name = text])

SetCategory(value) == ChangeProductForm([productForm EXCEPT !.category = value])

SetPurchasePrice(text) ==
    ChangeProductForm([productForm EXCEPT !.price.purchase = NumberOr(text, 0)])

SetSalePrice(text) ==
    ChangeProductForm([productForm EXCEPT !.price.sale = NumberOr(text, 0)])

SetCurrentStock(text) ==
    ChangeProductForm([productForm EXCEPT !.stock.current = NumberOr(text, 0)])

SetMinimumStock(text) ==
    ChangeProductForm([productForm EXCEPT !.stock.minimum = NumberOr(text, 0)])

\* The onChange handlers of the stock form.
ChangeStockForm(form) ==
    /\ stockModal
    /\ form # stockForm
    /\ stockForm' = form
    /\ UNCHANGED <<productForm, selectedProduct, errors, productModal, stockModal,
                   offFormVars>>

SetQuantity(text) == ChangeStockForm([stockForm EXCEPT !.quantity = NumberOr(text, 1)])

SetUnitCost(text) == ChangeStockForm([stockForm EXCEPT !.unitCost = NumberOr(text, 0)])

\* "Criar" / "Atualizar", disabled while submitting: saveProduct up to the await
\* (no image file is chosen).
SaveProduct ==
    /\ productModal
    /\ ~submitting
    /\ requestsIssued < MaxRequests
    /\ errors' = validateProduct(productForm)
    /\ IF DOMAIN errors' = {}
       THEN /\ submitting' = TRUE
            /\ requestsIssued' = requestsIssued + 1
            /\ requests' = requests \cup
                   {ProductRequest(requestsIssued',
                                   IF selectedProduct # NullRef THEN "PUT" ELSE "POST",
                                   productForm)}
       ELSE UNCHANGED <<submitting, requestsIssued, requests>>
    /\ UNCHANGED <<productForm, stockForm, selectedProduct, productModal, stockModal,
                   products, loading>>
    /\ UNCHANGED <<isLoading, error, toasts, appointmentVars, dashboardVars>>

\* "Confirmar Movimentação", disabled while submitting: moveStock up to the await.
MoveStock ==
    /\ stockModal
    /\ ~submitting
    /\ requestsIssued < MaxRequests
    /\ errors' = validateStock(stockForm)
    /\ IF DOMAIN errors' = {} /\ selectedProduct # NullRef
       THEN /\ submitting' = TRUE
            /\ requestsIssued' = requestsIssued + 1
            /\ requests' = requests \cup
                   {ProductRequest(requestsIssued', "POST stock", stockForm)}
       ELSE UNCHANGED <<submitting, requestsIssued, requests>>
    /\ UNCHANGED <<productForm, stockForm, selectedProduct, productModal, stockModal,
                   products, loading>>
    /\ UNCHANGED <<isLoading, error, toasts, appointmentVars, dashboardVars>>

SavedText(method) ==
    CASE method = "PUT" -> "Produto atualizado"
      [] method = "POST" -> "Produto criado"
      [] method = "POST stock" -> "Estoque movimentado"

SaveFailedText(method) ==
    IF method = "POST stock" THEN "Erro ao movimentar estoque" ELSE "Erro ao salvar produto"

\* The PUT or POST resolves: toast.success, the dialog closes, the form is reset
\* (selectedProduct and errors with it), fetchProducts() is called, then the
\* finally block.
SubmitOk(r) ==
    /\ r \in requests
    /\ r.method # "GET"
    /\ toasts' = toasts \cup {Toast("success", SavedText(r.method), r.id)}
    /\ IF r.method = "POST stock"
       THEN /\ stockModal' = FALSE
            /\ stockForm' = EmptyStockForm
            /\ UNCHANGED <<productModal, productForm>>
       ELSE /\ productModal' = FALSE
            /\ productForm' = EmptyProductForm
            /\ UNCHANGED <<stockModal, stockForm>>
    /\ selectedProduct' = NullRef
    /\ errors' = <<>>
    /\ loading' = TRUE
    /\ requestsIssued' = requestsIssued + 1
    /\ requests' = (requests \ {r}) \cup
           {ProductRequest(requestsIssued', "GET", "products")}
    /\ submitting' = FALSE
    /\ UNCHANGED <<products, isLoading, error, appointmentVars, dashboardVars>>

\* The PUT or POST rejects: toast.error, then the finally block.
SubmitFail(r) ==
    /\ r \in requests
    /\ r.method # "GET"
    /\ requests' = requests \ {r}
    /\ toasts' = toasts \cup {Toast("error", SaveFailedText(r.method), r.id)}
    /\ submitting' = FALSE
    /\ UNCHANGED <<productForm, stockForm, selectedProduct, errors, productModal,
                   stockModal, products, loading, requestsIssued>>
    /\ UNCHANGED <<isLoading, error, appointmentVars, dashboardVars>>

\* The texts typed into the inputs, and the categories of the select.
NameTexts == {" ", "Pomada"}
CategoryValues == {"cabelo"}
NumberTexts == {"", "-1"}
QuantityTexts == {"0", "-1"}

NextProducts ==
    \/ ProductsMount
    \/ \E r \in requests : FetchProductsOk(r)
    \/ \E r \in requests : FetchProductsFail(r)
    \/ \E product \in {NullRef, Pomada} : OpenProductModal(product)
    \/ OpenStockModal(Pomada)
    \/ SetProductModal(FALSE)
    \/ SetStockModal(FALSE)
    \/ \E text \in NameTexts : SetName(text)
    \/ \E value \in CategoryValues : SetCategory(value)
    \/ \E text \in NumberTexts : SetPurchasePrice(text)
    \/ \E text \in NumberTexts : SetSalePrice(text)
    \/ \E text \in NumberTexts : SetCurrentStock(text)
    \/ \E text \in NumberTexts : SetMinimumStock(text)
    \/ \E text \in QuantityTexts : SetQuantity(text)
    \/ \E text \in NumberTexts : SetUnitCost(text)
    \/ SaveProduct
    \/ MoveStock
    \/ \E r \in requests : SubmitOk(r)
    \/ \E r \in requests : SubmitFail(r)

\* The products page is the same for every role.
InitProducts == Init /\ ~isUserAdmin

SpecProducts == InitProducts /\ [][NextProducts]_vars

----------------------------------------------------------------------------
(* The colour map on longer collections *)

\* The time fields of the bookings of SpecPalette, by position.
PaletteTimes == <<MonAfternoon, NotADate, SunMorning, NoTime, SunLateBrt>>

PaletteBooking(i, barber) ==
    Booking(i, barber, PaletteTimes[((i - 1) % Len(PaletteTimes)) + 1])

\* Every list of up to MaxShortLen bookings over three staff ids and no staff.
ShortStaffLists ==
    UNION {[1..k -> {NoBarber, BarberId(1), BarberId(2), BarberId(3)}] :
              k \in 0..MaxShortLen}

\* m distinct ids starting at the s-th and wrapping round, the first id once more
\* at the end, and a booking without staff in front.
LongStaffList(m, s) ==
    <<NoBarber>> \o [i \in 1..m |-> BarberId(((s + i - 2) % m) + 1)]
                 \o <<BarberId(s)>>

LongStaffLists ==
    UNION {{LongStaffList(m, s) : s \in 1..m} : m \in 1..MaxStaff}

PaletteResponses ==
    {[i \in 1..Len(staff) |-> PaletteBooking(i, staff[i])] :
        staff \in ShortStaffLists \cup LongStaffLists}

NextPalette ==
    \/ \E resp \in PaletteResponses : FetchPageDataOk(resp)
    \/ \E v \in BOOLEAN : SetShowPastAppointments(v)

SpecPalette == Init /\ [][NextPalette]_vars

----------------------------------------------------------------------------
(* Claims about the staff colour map *)

\* The staff ids the bookings carry.
StaffOf(bks) == {bks[i].barber : i \in DOMAIN bks} \ {NoBarber}

\* Where a staff id first appears in the collection.
FirstSeenAt(bks, id) ==
    CHOOSE i \in DOMAIN bks :
        bks[i].barber = id /\ \A j \in 1..(i - 1) : bks[j].barber # id

\* How many distinct staff ids appear before the first appearance of id.
DistinctBefore(bks, id) ==
    Cardinality({bks[j].barber : j \in 1..(FirstSeenAt(bks, id) - 1)} \ {NoBarber})

StaffSequence(bks) == [i \in 1..Len(bks) |-> bks[i].barber]

\* C1: the colour map holds exactly the staff ids of the fetched collection,
\* the k-th distinct id in order of first appearance (k from 0, below the
\* palette length) has BARBER_COLORS[k], bookings for staff B, A, B, A, C give
\* B, A, C the first three palette colours, and the map held is the map a
\* recomputation from the same collection gives.
C1_FirstSeenOrder ==
    /\ DOMAIN barberColorMap = StaffOf(bookings)
    /\ \A id \in StaffOf(bookings) :
           DistinctBefore(bookings, id) < Len(BARBER_COLORS)
           => barberColorMap[id] = BARBER_COLORS[DistinctBefore(bookings, id) + 1]
    /\ StaffSequence(bookings) =
           <<BarberId(2), BarberId(1), BarberId(2), BarberId(1), BarberId(3)>>
       => /\ barberColorMap[BarberId(2)] = "#1f77b4"
          /\ barberColorMap[BarberId(1)] = "#ff7f0e"
          /\ barberColorMap[BarberId(3)] = "#2ca02c"
    /\ barberColorMap = ComputeBarberColorMap(bookings)

\* C1 witness: bookings for staff b02, b01, b02, b01, b03 are held and mapped.
C1_Witness ==
    /\ StaffSequence(bookings) =
           <<BarberId(2), BarberId(1), BarberId(2), BarberId(1), BarberId(3)>>
    /\ barberColorMap =
           [id \in {BarberId(1), BarberId(2), BarberId(3)} |->
               IF id = BarberId(2) THEN "#1f77b4"
               ELSE IF id = BarberId(1) THEN "#ff7f0e" ELSE "#2ca02c"]

\* C2: the palette has exactly 10 entries and is reused cyclically: the k-th
\* distinct staff id (k from 0) has palette[k mod 10], so the 11th distinct id
\* has palette[0] again.
C2_PaletteCyclic ==
    /\ Len(BARBER_COLORS) = 10
    /\ Cardinality(Range(BARBER_COLORS)) = 10
    /\ \A id \in StaffOf(bookings) :
           LET k == DistinctBefore(bookings, id)
           IN  /\ barberColorMap[id] = BARBER_COLORS[(k % 10) + 1]
               /\ k = 10 => barberColorMap[id] = "#1f77b4"

\* C2 witness: a collection with an 11th distinct staff id, coloured palette[0].
C2_Witness ==
    \E id \in StaffOf(bookings) :
        /\ DistinctBefore(bookings, id) = 10
        /\ barberColorMap[id] = BARBER_COLORS[1]

\* C3: a step that leaves the bookings collection as it is (a change of the
\* staff filter, the day filter or the show-past toggle) leaves the colour map
\* as it is: no staff member changes colour when only filters change.
C3_ColorsStableUnderFilters ==
    [][bookings' = bookings => barberColorMap' = barberColorMap]_vars

\* C3 witness: a filter away from its default hides the booking of the staff
\* member seen first, and the colours are still those of the whole collection,
\* not the ones the list on display would give.
C3_Witness ==
    /\ \/ selectedDayFilter # "all"
       \/ selectedBarberFilter # "all"
       \/ showPastAppointments
    /\ Len(bookings) = 2
    /\ Len(displayedBookings) = 1
    /\ barberColorMap # ComputeBarberColorMap(displayedBookings)
    /\ Cardinality(DOMAIN barberColorMap) = 2

----------------------------------------------------------------------------
(* Claims about the displayed list *)

\* The i-th displayed booking's parsed time, and whether it was past when the
\* list was computed.
ShownDate(i) == parseISO(displayedBookings[i].time)
ShownValid(i) == ShownDate(i).valid
ShownPast(i) == ShownValid(i) /\ ShownDate(i).t < evalNow
ShownFuture(i) == ShownValid(i) /\ ~(ShownDate(i).t < evalNow)

IsShown(b) == b \in Range(displayedBookings)

\* What the staff step asks of a booking under the filter state held.
PassesStaffFilter(b) ==
    \/ ~isUserAdmin
    \/ selectedBarberFilter = "all"
    \/ b.barber = selectedBarberFilter

\* What the show-past step asks of a booking, at the instant of the computation.
PassesPastFilter(b) ==
    \/ showPastAppointments
    \/ parseISO(b.time).valid /\ ~(parseISO(b.time).t < evalNow)

\* C4: of two displayed bookings with valid times, one past and one not, the
\* one that is not past comes first.
C4_FutureBeforePast ==
    \A i, j \in DOMAIN displayedBookings :
        ShownFuture(i) /\ ShownPast(j) => i < j

\* C4 witness: the list shows a past booking fetched ahead of a future one,
\* the future one first.
C4_Witness ==
    /\ Len(bookings) = 2
    /\ isPast(parseISO(bookings[1].time), evalNow)
    /\ parseISO(bookings[2].time).valid
    /\ ~isPast(parseISO(bookings[2].time), evalNow)
    /\ displayedBookings = <<bookings[2], bookings[1]>>

\* C5: two displayed future bookings appear in ascending time order.
C5_FutureAscending ==
    \A i, j \in DOMAIN displayedBookings :
        ShownFuture(i) /\ ShownFuture(j) /\ ShownDate(i).t < ShownDate(j).t
        => i < j

\* C5 witness: two future bookings fetched later-first are shown sooner-first.
C5_Witness ==
    /\ Len(bookings) = 2
    /\ bookings[1].time = MonAfternoon
    /\ bookings[2].time = SunLateBrt
    /\ evalNow = NowStart
    /\ displayedBookings = <<bookings[2], bookings[1]>>

\* C6: two displayed past bookings appear in descending time order.
C6_PastDescending ==
    \A i, j \in DOMAIN displayedBookings :
        ShownPast(i) /\ ShownPast(j) /\ ShownDate(i).t > ShownDate(j).t
        => i < j

\* C6 witness: two past bookings fetched older-first are shown recent-first.
C6_Witness ==
    /\ Len(bookings) = 2
    /\ bookings[1].time = SunMorning
    /\ bookings[2].time = SunLateBrt
    /\ evalNow = NowStart + TickStep
    /\ displayedBookings = <<bookings[2], bookings[1]>>

\* C7: a displayed booking whose time string does not parse comes after every
\* displayed booking with a valid time, and the filter steps and the sort
\* yield a list: bookings of the collection, each at most once.
C7_InvalidLast ==
    /\ \A i, j \in DOMAIN displayedBookings :
           ~ShownValid(i) /\ ShownValid(j) => j < i
    /\ \A i \in DOMAIN displayedBookings : displayedBookings[i] \in Range(bookings)
    /\ \A i, j \in DOMAIN displayedBookings :
           displayedBookings[i]._id = displayedBookings[j]._id => i = j

\* C7 witness: "not-a-date" fetched ahead of a valid time is shown after it.
C7_Witness ==
    /\ Len(bookings) = 2
    /\ bookings[1].time = NotADate
    /\ parseISO(bookings[2].time).valid
    /\ displayedBookings = <<bookings[2], bookings[1]>>

\* C8 (as claimed): displayed bookings with invalid times keep the relative
\* order they have in the bookings collection (_id is the position there).
C8_InvalidKeepInputOrder ==
    \A i, j \in DOMAIN displayedBookings :
        ~ShownValid(i) /\ ~ShownValid(j) /\ i < j
        => displayedBookings[i]._id < displayedBookings[j]._id

\* C9 (as claimed): a booking with an unparseable time is displayed only when
\* no filter is active: staff "all", day "all" and show-past on.
C9_UnparseableOnlyUnfiltered ==
    \A i \in DOMAIN displayedBookings :
        ~ShownValid(i)
        => /\ selectedBarberFilter = "all"
           /\ selectedDayFilter = "all"
           /\ showPastAppointments

\* C9 (amended): a booking whose time string does not parse is displayed
\* exactly when the day filter is "all", show-past is on and the booking
\* passes the staff filter; a staff filter alone does not remove it.
C9_UnparseableOnlyWithoutTimeFilters ==
    \A i \in DOMAIN bookings :
        bookings[i].time = NotADate
        => (IsShown(bookings[i])
            <=> /\ selectedDayFilter = "all"
                /\ showPastAppointments
                /\ PassesStaffFilter(bookings[i]))

\* C9 witness: under a staff filter, "not-a-date" of that staff member is shown.
C9_Witness ==
    /\ selectedBarberFilter # "all"
    /\ \E i \in DOMAIN displayedBookings :
           /\ displayedBookings[i].time = NotADate
           /\ displayedBookings[i].barber = selectedBarberFilter

\* The UTC weekday of each time string of Spec, worked out by hand.
UtcWeekdayOf(s) ==
    IF s = SunMorning THEN "0"
    ELSE IF s = SunLateBrt THEN "1"
    ELSE IF s = MonAfternoon THEN "1"
    ELSE "Invalid Date"

\* C10: with a day selected, a booking that passes the other steps is displayed
\* exactly when the UTC weekday of its instant is the selected one: under "1"
\* 2024-01-07T23:30:00-03:00 is kept, under "0" it is dropped.
C10_DayFilterUsesUtc ==
    selectedDayFilter # "all"
    => \A i \in DOMAIN bookings :
           PassesStaffFilter(bookings[i]) /\ PassesPastFilter(bookings[i])
           => /\ IsShown(bookings[i])
                 <=> UtcWeekdayOf(bookings[i].time) = selectedDayFilter
              /\ bookings[i].time = SunLateBrt
                 => (IsShown(bookings[i]) <=> selectedDayFilter = "1")

\* C10 witness: under "1" the list shows 2024-01-07T23:30:00-03:00.
C10_Witness ==
    /\ selectedDayFilter = "1"
    /\ \E i \in DOMAIN displayedBookings : displayedBookings[i].time = SunLateBrt

----------------------------------------------------------------------------
(* The page on bookings whose customer or service was deleted *)

CustomerRefs == {NullRef, Customer("Ana")}

ServiceRefs ==
    {NullRef, Service("Corte", 30), Service("Barba", 0), ServiceWithoutDuration("Luzes")}

\* A booking of a staff member at a time that parses, or one without staff
\* whose time does not parse.
AgendaSlots == {<<BarberId(1), MonAfternoon>>, <<NoBarber, NotADate>>}

AgendaFields == AgendaSlots \X CustomerRefs \X ServiceRefs

\* Every list of k such bookings.
AgendaResponsesOfLen(k) ==
    {[i \in 1..k |->
         PopulatedBooking(i, f[i][1][1], f[i][1][2], f[i][2], f[i][3], "booked")] :
        f \in [1..k -> AgendaFields]}

AgendaResponses == UNION {AgendaResponsesOfLen(k) : k \in 0..MaxBookings}

NextAgenda ==
    \/ \E resp \in AgendaResponses : FetchPageDataOk(resp)
    \/ \E v \in BOOLEAN : SetShowPastAppointments(v)

SpecAgenda == Init /\ [][NextAgenda]_vars

----------------------------------------------------------------------------
(* The page on bookings in every status *)

\* The four statuses of PopulatedBooking and one the front-end does not know.
Statuses == {"booked", "confirmed", "completed", "canceled", "no_show"}

\* Every status at a past time and at a future one, and a booked booking whose
\* time does not parse.
BadgeFields ==
    ({SunMorning, MonAfternoon} \X Statuses) \cup {<<NotADate, "booked">>}

BadgeResponsesOfLen(k) ==
    {[i \in 1..k |->
         PopulatedBooking(i, BarberId(1), f[i][1], Customer("Ana"),
                          Service("Corte", 30), f[i][2])] :
        f \in [1..k -> BadgeFields]}

BadgeResponses == UNION {BadgeResponsesOfLen(k) : k \in 0..MaxBookings}

NextBadges ==
    \/ \E resp \in BadgeResponses : FetchPageDataOk(resp)
    \/ \E v \in BOOLEAN : SetShowPastAppointments(v)
    \/ \E i \in 1..MaxBookings : HandleSelectEvent(i)
    \/ SetIsModalOpen(FALSE)

SpecBadges == Init /\ [][NextBadges]_vars

----------------------------------------------------------------------------
(* The page with its row actions *)

\* Booked bookings: the first past or future, the others future.
StatusTimes(i) == IF i = 1 THEN {SunMorning, MonAfternoon} ELSE {MonAfternoon}

StatusResponsesOfLen(k) ==
    {[i \in 1..k |->
         PopulatedBooking(i, BarberId(1), f[i], Customer("Ana"),
                          Service("Corte", 30), "booked")] :
        f \in {g \in [1..k -> {SunMorning, MonAfternoon}] :
                  \A i \in 1..k : g[i] \in StatusTimes(i)}}

StatusResponses == UNION {StatusResponsesOfLen(k) : k \in 1..MaxBookings}

NextStatus ==
    \/ \E resp \in StatusResponses : FetchPageDataOk(resp)
    \/ \E v \in BOOLEAN : SetShowPastAppointments(v)
    \/ \E id \in 1..MaxBookings : HandleCancelBooking(id)
    \/ \E id \in 1..MaxBookings : HandleMarkAsCompleted(id)
    \/ \E r \in requests : PutOk(r)
    \/ \E r \in requests : PutFail(r)
    \/ \E id \in 1..MaxBookings : SetBookingToDelete(id)
    \/ CloseDeleteDialog
    \/ HandleDeleteBooking
    \/ \E r \in requests : DeleteOk(r)
    \/ \E r \in requests : DeleteFail(r)

SpecStatus == Init /\ [][NextStatus]_vars

----------------------------------------------------------------------------
(* Claims about the pipeline as a function *)

\* The engines whose sort is modelled.
Engines == {"v8", "spidermonkey"}

\* filtered.sort(compare) in one engine.
SortIn(engine, arr, n) ==
    IF engine = "v8" THEN V8Sort(arr, n) ELSE SpiderMonkeySort(arr, n)

\* The displayedBookings callback in one engine, under the filter state held
\* and at the instant the list on display was computed.
PipelineIn(engine, bks) ==
    SortIn(engine,
           filterSteps(bks, isUserAdmin, selectedBarberFilter, selectedDayFilter,
                       showPastAppointments, evalNow),
           evalNow)

\* C11 (as claimed): in either engine, the pipeline applied to the list it
\* produced, under the same filter state and at the same instant, gives that
\* list again.
C11_PipelineIdempotent ==
    \A engine \in Engines :
        displayedBookings = PipelineIn(engine, bookings)
        => PipelineIn(engine, displayedBookings) = displayedBookings

----------------------------------------------------------------------------
(* Claims about the calendar projection *)

\* The bookings behind the events on the calendar.
EventBookingIds == {agendaEvents[i]._id : i \in DOMAIN agendaEvents}

BookingOf(id) == CHOOSE b \in Range(bookings) : b._id = id

\* C12: no calendar event comes from a booking whose customer is null or whose
\* service is null, whatever the other relation is; the projection of such a
\* collection still yields the event list (one event per booking with both
\* relations, in input order) instead of failing.
C12_NoEventWithoutCustomerOrService ==
    /\ \A i \in DOMAIN bookings :
           bookings[i].customer = NullRef \/ bookings[i].service = NullRef
           => bookings[i]._id \notin EventBookingIds
    /\ [i \in DOMAIN agendaEvents |-> agendaEvents[i]._id] =
           LET both == SelectSeq(bookings,
                           LAMBDA b : b.customer # NullRef /\ b.service # NullRef)
           IN  [i \in DOMAIN both |-> both[i]._id]

\* C12 witness: a booking with a customer and no service, next to a complete
\* one; only the complete one is on the calendar.
C12_Witness ==
    /\ Len(bookings) = 2
    /\ bookings[1].customer # NullRef /\ bookings[1].service = NullRef
    /\ bookings[2].customer # NullRef /\ bookings[2].service # NullRef
    /\ Len(agendaEvents) = 1
    /\ agendaEvents[1]._id = 2

\* The minutes between an event's start and its end.
EventMinutes(ev) == ev.end.t - ev.start.t

\* C13: every event ends exactly serviceDuration minutes after it starts, where
\* serviceDuration is the service's duration when it has one that is not zero
\* and 60 otherwise (an event whose start is an Invalid Date has an Invalid end).
C13_EventEndsAfterDuration ==
    \A i \in DOMAIN agendaEvents :
        LET ev == agendaEvents[i]
            service == BookingOf(ev._id).service
            expected == IF service = Service("Corte", 30) THEN 30 ELSE 60
        IN  /\ ev.start = parseISO(BookingOf(ev._id).time)
            /\ ev.end.valid = ev.start.valid
            /\ ev.start.valid => EventMinutes(ev) = expected

\* C13 witness: a 30 minute service and a service of duration 0 on the
\* calendar, lasting 30 and 60 minutes.
C13_Witness ==
    /\ Len(agendaEvents) = 2
    /\ agendaEvents[1].resource.service = Service("Corte", 30)
    /\ agendaEvents[2].resource.service = Service("Barba", 0)
    /\ agendaEvents[1].start.valid /\ agendaEvents[2].start.valid
    /\ EventMinutes(agendaEvents[1]) = 30
    /\ EventMinutes(agendaEvents[2]) = 60

----------------------------------------------------------------------------
(* Claims about the status badges *)

\* Of the times of SpecBadges only SunMorning lies before NowStart.
KnownPast(booking) == booking.time = SunMorning

\* C14: on every table row, and in the calendar-only page's getStatusInfo for
\* the same booking, a "booked" booking is labelled "Ocorrido" when it is past
\* and "Agendado" when it is not, and a "canceled" one is labelled "Cancelado"
\* whether it is past or not.
C14_BookedAndCanceledLabels ==
    \A i \in DOMAIN displayedBookings :
        LET b == displayedBookings[i]
            expected == IF b.status = "canceled" THEN "Cancelado"
                        ELSE IF KnownPast(b) THEN "Ocorrido" ELSE "Agendado"
        IN  b.status \in {"booked", "canceled"}
            => /\ TableBadge(b, now).text = expected
               /\ calendarGetStatusInfo(b, now).text = expected

\* C14 witness: a past booked row and a past canceled row are on display.
C14_Witness ==
    /\ Len(displayedBookings) = 2
    /\ \E i, j \in DOMAIN displayedBookings :
          /\ displayedBookings[i].status = "booked"
          /\ displayedBookings[j].status = "canceled"
          /\ KnownPast(displayedBookings[i])
          /\ KnownPast(displayedBookings[j])
          /\ TableBadge(displayedBookings[i], now).text = "Ocorrido"
          /\ TableBadge(displayedBookings[j], now).text = "Cancelado"

\* C15 (as claimed): the badge of the open details dialog carries the same label
\* and the same colour class as the badge of the table row of that booking, and
\* as the calendar-only page's badge for it.
C15_BadgesAgree ==
    isModalOpen /\ selectedBooking # NullRef
    => \A i \in DOMAIN displayedBookings :
           displayedBookings[i]._id = selectedBooking._id
           => /\ getStatusInfo(selectedBooking.status) =
                     TableBadge(displayedBookings[i], now)
              /\ calendarGetStatusInfo(displayedBookings[i], now) =
                     TableBadge(displayedBookings[i], now)

----------------------------------------------------------------------------
(* Claims about the optimistic status updates *)

StatusUpdates == {r \in requests : r.method = "PUT"}

ErrorToastOf(r, shown) ==
    \E t \in shown : t.type = "error" /\ t.request = r.id

SuccessToastOf(r, shown) ==
    \E t \in shown : t.type = "success" /\ t.request = r.id

\* C16: what a status update keeps to roll back to is the collection as it was
\* just before the optimistic patch; and when the request ends without success,
\* that step sets bookings to exactly that collection and emits an error
\* notification for the request.
C16_FailureRestoresSnapshot ==
    [][/\ \A r \in requests' \ requests :
              r.method = "PUT"
              => /\ r.originalBookings = bookings
                 /\ bookings' = WithStatus(bookings, r.bookingId, r.status)
       /\ \A r \in StatusUpdates :
              r \notin requests' /\ ~SuccessToastOf(r, toasts')
              => /\ bookings' = r.originalBookings
                 /\ ErrorToastOf(r, toasts')
                 /\ ~ErrorToastOf(r, toasts)]_vars

\* C16 witness: a cancellation failed; the booking is booked again and the
\* failure was notified.
C16_Witness ==
    /\ requests = {}
    /\ \E t \in toasts : t.type = "error" /\ t.text = "Falha ao cancelar o agendamento."
    /\ Len(bookings) > 0
    /\ \A i \in DOMAIN bookings : bookings[i].status = "booked"

\* C17 (as claimed): no booking has two status updates in flight at once.
C17_OneUpdateInFlightPerBooking ==
    \A r1, r2 \in StatusUpdates : r1.bookingId = r2.bookingId => r1 = r2

----------------------------------------------------------------------------
(* Claims about the dashboard's fetches *)

----------------------------------------------------------------------------
(* Claims about the product and stock forms *)

\* The fields of a product form that fail: an empty name, an empty category, a
\* negative price, a negative stock.
FailingProductFields(form) ==
    {f \in {"name"} : form.name \in {"", " "}}
    \cup {f \in {"category"} : form.category = ""}
    \cup {f \in {"purchasePrice"} : form.price.purchase < 0}
    \cup {f \in {"salePrice"} : form.price.sale < 0}
    \cup {f \in {"currentStock"} : form.stock.current < 0}
    \cup {f \in {"minimumStock"} : form.stock.minimum < 0}

\* The fields of a stock form that fail: a quantity <= 0, a negative unit cost.
FailingStockFields(form) ==
    {f \in {"quantity"} : form.quantity <= 0}
    \cup {f \in {"unitCost"} : form.unitCost < 0}

\* C19: saveProduct on a product form with a failing field, and moveStock on a
\* stock form with a failing field, send no request and leave an inline error
\* for exactly the failing fields; no product or stock request in flight ever
\* carries a form with a failing field.
C19_InvalidFormNeverSent ==
    [][/\ SaveProduct /\ FailingProductFields(productForm) # {}
          => /\ requests' = requests
             /\ requestsIssued' = requestsIssued
             /\ DOMAIN errors' = FailingProductFields(productForm)
       /\ MoveStock /\ FailingStockFields(stockForm) # {}
          => /\ requests' = requests
             /\ requestsIssued' = requestsIssued
             /\ DOMAIN errors' = FailingStockFields(stockForm)
       /\ \A r \in requests' :
              /\ r.method \in {"PUT", "POST"} => FailingProductFields(r.body) = {}
              /\ r.method = "POST stock" => FailingStockFields(r.body) = {}]_vars

\* C19 witness: a product form with a blank name, no category and a negative
\* purchase price was submitted; the three errors are shown and nothing was sent.
C19_Witness ==
    /\ productModal
    /\ productForm.name = " " /\ productForm.category = ""
    /\ productForm.price.purchase < 0
    /\ DOMAIN errors = {"name", "category", "purchasePrice"}
    /\ ~submitting
    /\ \A r \in requests : r.method = "GET"

----------------------------------------------------------------------------
(* Claims about the staff filter *)

\* What the day step asks of a booking under the filter state held.
PassesDayFilter(b) ==
    \/ selectedDayFilter = "all"
    \/ UtcWeekdayOf(b.time) = selectedDayFilter

\* The positions of bks whose staff reference id is barberId.
PositionsOfStaff(bks, barberId) == {i \in DOMAIN bks : bks[i].barber = barberId}

\* C20: with a staff id selected, a booking that passes the other steps is
\* displayed exactly when its staff reference id is the selected one, so a
\* booking without staff is not displayed; with "all" the staff step drops
\* nothing; the source list of the calendar-only page is, for each staff id,
\* the bookings of that staff member in fetch order, and all of them for "all".
C20_StaffFilterExact ==
    /\ \A i \in DOMAIN bookings :
           IsShown(bookings[i])
           <=> /\ selectedBarberFilter # "all"
                  => bookings[i].barber = selectedBarberFilter
               /\ PassesDayFilter(bookings[i])
               /\ PassesPastFilter(bookings[i])
    /\ Len(displayedBookings)
           = Cardinality({i \in DOMAIN bookings : IsShown(bookings[i])})
    /\ selectedBarberFilter # "all"
       => \A i \in DOMAIN displayedBookings :
              displayedBookings[i].barber # NoBarber
    /\ filteredBookings(bookings, "all") = bookings
    /\ \A v \in ShopBarbers :
           LET source == filteredBookings(bookings, v) IN
           /\ Len(source) = Cardinality(PositionsOfStaff(bookings, v))
           /\ \A i \in DOMAIN bookings :
                  bookings[i] \in Range(source) <=> bookings[i].barber = v
           /\ \A i, j \in DOMAIN source :
                  i < j => source[i]._id < source[j]._id

\* C20 witness: under a staff filter, a booking of that staff member is
\* displayed and a fetched booking without staff is not.
C20_Witness ==
    /\ selectedBarberFilter # "all"
    /\ \E i, j \in DOMAIN bookings :
           /\ bookings[i].barber = selectedBarberFilter
           /\ IsShown(bookings[i])
           /\ bookings[j].barber = NoBarber
           /\ PassesDayFilter(bookings[j])
           /\ PassesPastFilter(bookings[j])
           /\ ~IsShown(bookings[j])

----------------------------------------------------------------------------
(* Claims about the show-past step *)

\* The instant of each parseable time string of Spec, worked out by hand.
InstantOf(s) ==
    IF s = SunMorning THEN Jan7 * DayMinutes + 10 * 60
    ELSE IF s = SunLateBrt THEN (Jan7 + 1) * DayMinutes + 2 * 60 + 30
    ELSE (Jan7 + 1) * DayMinutes + 15 * 60

\* C21: with show-past off no displayed booking has an unparseable time or an
\* instant before Date.now() as read when the list was computed; with show-past
\* on every booking that passes the staff and day steps is displayed.
C21_NoPastWhenShowPastOff ==
    /\ ~showPastAppointments
       => \A i \in DOMAIN displayedBookings :
              /\ displayedBookings[i].time # NotADate
              /\ ~(InstantOf(displayedBookings[i].time) < evalNow)
    /\ showPastAppointments
       => /\ \A i \in DOMAIN bookings :
                 PassesStaffFilter(bookings[i]) /\ PassesDayFilter(bookings[i])
                 => IsShown(bookings[i])
          /\ Len(displayedBookings)
                 = Cardinality({i \in DOMAIN bookings :
                                   /\ PassesStaffFilter(bookings[i])
                                   /\ PassesDayFilter(bookings[i])})

\* C21 witness: with show-past off, of a booking at the very instant the list
\* was computed and an earlier one, only the first is displayed.
C21_Witness ==
    /\ ~showPastAppointments
    /\ selectedDayFilter = "all"
    /\ \E i, j \in DOMAIN bookings :
           /\ bookings[i].time = SunLateBrt
           /\ InstantOf(SunLateBrt) = evalNow
           /\ IsShown(bookings[i])
           /\ bookings[j].time = SunMorning
           /\ PassesStaffFilter(bookings[j])
           /\ ~IsShown(bookings[j])

----------------------------------------------------------------------------
(* Claims about the order of the filter steps *)

\* One filter step, by name, under the filter state held and the instant the
\* list was computed.
StepNamed(name, list) ==
    IF name = "staff" THEN barberStep(list, isUserAdmin, selectedBarberFilter)
    ELSE IF name = "day" THEN dayStep(list, selectedDayFilter)
    ELSE pastStep(list, showPastAppointments, evalNow)

\* The six orders of the three steps.
StepOrders ==
    {o \in [1..3 -> {"staff", "day", "past"}] : \A i, j \in 1..3 : o[i] = o[j] => i = j}

StepsInOrder(o, list) == StepNamed(o[3], StepNamed(o[2], StepNamed(o[1], list)))

\* C22: applied in any of the six orders, the staff, day and show-past steps
\* leave the same bookings in the same order, namely those that pass all three
\* predicates, and the displayed list is a sort of that list.
C22_FilterStepsCommute ==
    \A o \in StepOrders :
        LET filtered == StepsInOrder(o, stringTimeStep(bookings)) IN
        /\ filtered = filterSteps(bookings, isUserAdmin, selectedBarberFilter,
                                  selectedDayFilter, showPastAppointments, evalNow)
        /\ Range(filtered) = {b \in Range(bookings) :
                                 /\ PassesStaffFilter(b)
                                 /\ PassesDayFilter(b)
                                 /\ PassesPastFilter(b)}
        /\ displayedBookings \in SortOutcomes(filtered, evalNow)

\* C22 witness: all three filters are active; of two fetched bookings one is
\* displayed and one that passes the staff step is removed by the day step.
C22_Witness ==
    /\ selectedBarberFilter # "all"
    /\ selectedDayFilter # "all"
    /\ ~showPastAppointments
    /\ Len(bookings) = 2
    /\ Len(displayedBookings) = 1
    /\ \E i \in DOMAIN bookings :
           /\ ~IsShown(bookings[i])
           /\ PassesStaffFilter(bookings[i])
           /\ ~PassesDayFilter(bookings[i])

----------------------------------------------------------------------------
(* Claims about the status mapper's fallback *)

\* The raw status values of SpecBadges with the first letter in upper case.
Capitalized(status) ==
    IF status = "no_show" THEN "No_show"
    ELSE IF status = "booked" THEN "Booked"
    ELSE IF status = "confirmed" THEN "Confirmed"
    ELSE IF status = "completed" THEN "Completed"
    ELSE "Canceled"

\* The class strings that give a badge no colour of its own.
NeutralClassNames == {"", "bg-gray-200 text-gray-800 border-gray-300"}

\* The three status mappers' answers for a booking.
StatusMappings(booking) ==
    {TableBadge(booking, now), getStatusInfo(booking.status),
     calendarGetStatusInfo(booking, now)}

\* C23: for a displayed booking with a status outside booked, completed,
\* canceled and confirmed every status mapper answers the raw status
\* capitalized, with a neutral class; for "completed" every mapper answers
\* "Concluído" and for "confirmed" every mapper answers "Confirmado".
C23_FallbackCapitalizesRawStatus ==
    \A i \in DOMAIN displayedBookings :
        LET booking == displayedBookings[i] IN
        \A info \in StatusMappings(booking) :
            /\ booking.status \notin {"booked", "completed", "canceled", "confirmed"}
               => /\ info.text = Capitalized(booking.status)
                  /\ info.className \in NeutralClassNames
            /\ booking.status = "completed" => info.text = "Concluído"
            /\ booking.status = "confirmed" => info.text = "Confirmado"

----------------------------------------------------------------------------
(* Claims about bookings without customer or service in the table *)

\* The booking with a customer and a service in place of the missing ones.
WithRelations(booking) ==
    [booking EXCEPT !.customer = Customer("Ana"), !.service = Service("Corte", 30)]

\* Whether the filter steps keep a booking fetched alone, under a filter state.
KeptAlone(booking, admin, barberF, dayF, showPast) ==
    filterSteps(<<booking>>, admin, barberF, dayF, showPast, evalNow) # <<>>

\* C24: a fetched booking is displayed exactly when the same booking with a
\* customer and a service would pass the filter steps under the filter state
\* held, and under every other filter state the steps treat the two alike; a
\* row whose customer or service is null shows "Cliente excluído" or "Serviço
\* excluído" in that cell.
C24_NullRelationsStayInTable ==
    \A i \in DOMAIN bookings :
        LET booking == bookings[i] IN
        /\ IsShown(booking)
           <=> KeptAlone(WithRelations(booking), isUserAdmin, selectedBarberFilter,
                         selectedDayFilter, showPastAppointments)
        /\ \A admin, showPast \in BOOLEAN :
               \A barberF \in {"all"} \cup ShopBarbers, dayF \in DayFilterValues :
                   KeptAlone(booking, admin, barberF, dayF, showPast)
                   <=> KeptAlone(WithRelations(booking), admin, barberF, dayF, showPast)
        /\ IsShown(booking) /\ booking.customer = NullRef
           => TableCells(booking).customer = "Cliente excluído"
        /\ IsShown(booking) /\ booking.service = NullRef
           => TableCells(booking).service = "Serviço excluído"
        /\ IsShown(booking) /\ booking.customer = Customer("Ana")
           => TableCells(booking).customer = "Ana"

\* C24 witness: a booking with neither customer nor service is in the table
\* and not on the calendar.
C24_Witness ==
    \E i \in DOMAIN displayedBookings :
        /\ displayedBookings[i].customer = NullRef
        /\ displayedBookings[i].service = NullRef
        /\ displayedBookings[i]._id \notin EventBookingIds

----------------------------------------------------------------------------
(* The page's fetches, one for each value barbershopId takes *)

\* A fetchPageData call awaiting its answer.  bookingsAtStart is the collection
\* as it was when the call started; the code keeps no such copy, the claims
\* read it.
PageRequest(id, atStart) == [id |-> id, method |-> "GET", bookingsAtStart |-> atStart]

\* fetchPageData up to the await: setIsLoading(true), setError(null).
FetchPageData ==
    /\ requestsIssued < MaxRequests
    /\ requestsIssued' = requestsIssued + 1
    /\ isLoading' = TRUE
    /\ error' = NULL
    /\ requests' = requests \cup {PageRequest(requestsIssued', bookings)}
    /\ UNCHANGED <<bookings, allBarbers, selectedDayFilter, selectedBarberFilter,
                   showPastAppointments, isUserAdmin, now, barberColorMap,
                   displayedBookings, evalNow, agendaEvents>>
    /\ UNCHANGED <<selectedBooking, isModalOpen, bookingToDelete, isDeleting, toasts,
                   calendarVars, otherPages>>

\* The useEffect at mount.
PageMount ==
    /\ requestsIssued = 0
    /\ FetchPageData

\* barbershopId, the useEffect's dependency, changes: the effect runs again,
\* whether or not an earlier call is still awaiting its answer.
BarbershopIdChanged ==
    /\ requestsIssued > 0
    /\ FetchPageData

\* A call resolves: setAllBarbers (admin only), setBookings, then the finally block.
PageFetchOk(r, resp) ==
    /\ r \in requests
    /\ requests' = requests \ {r}
    /\ bookings' = resp
    /\ allBarbers' = IF isUserAdmin THEN ShopBarbers ELSE allBarbers
    /\ isLoading' = FALSE
    /\ Render(resp, selectedBarberFilter, selectedDayFilter, showPastAppointments)
    /\ UNCHANGED <<error, selectedDayFilter, selectedBarberFilter,
                   showPastAppointments, isUserAdmin, now>>
    /\ UNCHANGED <<selectedBooking, isModalOpen, bookingToDelete, isDeleting,
                   requestsIssued, toasts, calendarVars, otherPages>>

\* err.response?.data?.error || "Não foi possível carregar os dados."
FetchErrors == {"Não foi possível carregar os dados.", "Barbearia não encontrada"}

\* A call rejects: setError, then the finally block; setBookings is not reached.
PageFetchFail(r, message) ==
    /\ r \in requests
    /\ requests' = requests \ {r}
    /\ error' = message
    /\ isLoading' = FALSE
    /\ UNCHANGED <<bookings, allBarbers, selectedDayFilter, selectedBarberFilter,
                   showPastAppointments, isUserAdmin, now, barberColorMap,
                   displayedBookings, evalNow, agendaEvents>>
    /\ UNCHANGED <<selectedBooking, isModalOpen, bookingToDelete, isDeleting,
                   requestsIssued, toasts, calendarVars, otherPages>>

\* The lists the backend answers with: bookings of either staff member.
FetchResponsesOfLen(k) ==
    {[i \in 1..k |-> Booking(i, f[i], MonAfternoon)] : f \in [1..k -> ShopBarbers]}

FetchResponses == UNION {FetchResponsesOfLen(k) : k \in 0..MaxBookings}

\* A call awaiting its answer gets one.
Settle ==
    \E r \in requests :
        \/ \E resp \in FetchResponses : PageFetchOk(r, resp)
        \/ \E message \in FetchErrors : PageFetchFail(r, message)

NextFetch ==
    \/ PageMount
    \/ BarbershopIdChanged
    \/ \E r \in requests : \E resp \in FetchResponses : PageFetchOk(r, resp)
    \/ \E r \in requests : \E message \in FetchErrors : PageFetchFail(r, message)
    \/ \E v \in BOOLEAN : SetShowPastAppointments(v)

\* Every HTTP call is answered or times out.
SpecFetch == Init /\ [][NextFetch]_vars /\ WF_vars(Settle)

----------------------------------------------------------------------------
(* Claims about a failed fetch *)

\* The call with this sequence number is awaiting its answer.
InFlight(id) == \E r \in requests : r.id = id

\* Whenever a call is awaiting its answer, later it no longer is and isLoading
\* is false.
LoadingEnds ==
    \A id \in 1..MaxRequests : InFlight(id) ~> (~InFlight(id) /\ ~isLoading)

\* C25: a failing fetch leaves isLoading false, error set and the
\* collection equal to what it was when that fetch started; after any fetch
\* isLoading eventually becomes false.
C25_FailureKeepsValueAtStart ==
    /\ [][\A r \in requests : \A message \in FetchErrors :
              PageFetchFail(r, message)
              => /\ isLoading' = FALSE
                 /\ error' # NULL
                 /\ bookings' = r.bookingsAtStart]_vars
    /\ LoadingEnds

----------------------------------------------------------------------------
(* Claims about the colour of the events *)

\* C26: an event of a booking without staff, or of a staff id the colour map
\* does not hold, has the colour "#333333"; any other event has the colour the
\* map holds for its staff id, which is the palette colour of the place its
\* staff id takes among the staff ids in order of first appearance; the
\* calendar paints each event in the colour it carries; against a map that
\* does not hold its staff id, any booking is given "#333333".
C26_FallbackColor ==
    /\ \A i \in DOMAIN agendaEvents :
           LET booking == BookingOf(agendaEvents[i]._id)
               color == agendaEvents[i].resource.color
           IN  /\ booking.barber = NoBarber => color = "#333333"
               /\ booking.barber \notin DOMAIN barberColorMap => color = "#333333"
               /\ booking.barber # NoBarber
                  => /\ color = barberColorMap[booking.barber]
                     /\ color = BARBER_COLORS[DistinctBefore(bookings, booking.barber) + 1]
               /\ eventPropGetter(agendaEvents[i]).style.backgroundColor = color
    /\ \A i \in DOMAIN bookings :
           /\ eventColor(bookings[i], <<>>) = "#333333"
           /\ \A id \in ShopBarbers \ {bookings[i].barber} :
                  eventColor(bookings[i], [k \in {id} |-> BARBER_COLORS[1]]) = "#333333"

\* C26 witness: an event without staff in the fallback colour next to an event
\* of the first staff member seen, in the first palette colour.
C26_Witness ==
    /\ Len(agendaEvents) = 2
    /\ agendaEvents[1].resource.barber = NoBarber
    /\ agendaEvents[1].resource.color = "#333333"
    /\ agendaEvents[2].resource.barber = BarberId(2)
    /\ agendaEvents[2].resource.color = "#1f77b4"

----------------------------------------------------------------------------
(* Claims about status updates and deletions of different bookings *)

\* The status the collection holds for a booking.
StatusIn(bks, bookingId) ==
    {bks[i].status : i \in {j \in DOMAIN bks : bks[j]._id = bookingId}}

\* C27: when the status update of a booking fails, the optimistic status of
\* every other booking whose update is still awaiting its answer is still in
\* the collection after the rollback.
C27_RollbackUndoesOnlyOwnChange ==
    [][\A r \in StatusUpdates :
           PutFail(r)
           => \A q \in StatusUpdates :
                  q.bookingId # r.bookingId
                  => StatusIn(bookings', q.bookingId) \subseteq {q.status}]_vars


\* The ids of the bookings in a collection.
IdsOf(bks) == {bks[i]._id : i \in DOMAIN bks}

\* C28: once the page has loaded, no booking absent from the collection enters
\* it again, so a deleted booking does not come back; and a successful delete
\* removes its booking from the collection and changes nothing else in it.
C28_DeletedStaysDeleted ==
    [][/\ ~isLoading => IdsOf(bookings') \subseteq IdsOf(bookings)
       /\ \A r \in requests :
              DeleteOk(r) => bookings' = Without(bookings, r.bookingId)]_vars

----------------------------------------------------------------------------
(* Claims about the comparator *)

Sign(x) == IF x < 0 THEN -1 ELSE IF x > 0 THEN 1 ELSE 0

\* The comparator's answer for two bookings, at the instant the list on
\* display was computed.
Compared(a, b) == Sign(compareBookings(a, b, evalNow))

\* C29: over the fetched bookings the comparator is antisymmetric in sign and
\* transitive, and both engines' sorts of the filtered list give the same order.
C29_ComparatorConsistent ==
    /\ \A a, b \in Range(bookings) : Compared(a, b) = -Compared(b, a)
    /\ \A a, b, c \in Range(bookings) :
           Compared(a, b) <= 0 /\ Compared(b, c) <= 0 => Compared(a, c) <= 0
    /\ PipelineIn("v8", bookings) = PipelineIn("spidermonkey", bookings)

----------------------------------------------------------------------------
(* Claims about the span of the events *)

\* C30: every event on the calendar starts at a valid instant and ends at a
\* valid instant later than its start.
C30_EventsHaveValidSpan ==
    \A i \in DOMAIN agendaEvents :
        /\ agendaEvents[i].start.valid
        /\ agendaEvents[i].end.valid
        /\ agendaEvents[i].end.t > agendaEvents[i].start.t

====
